---------------------------- MODULE Spec2Model ----------------------------
(***************************************************************************)
(* env-guard: the key derivation unit (crypto.ts: deriveKey), the          *)
(* authenticated encryption of single values (crypto.ts: encrypt,          *)
(* decrypt), the encrypted store file .env.lock (store.ts: loadSecrets,    *)
(* saveSecret, listKeys, lockFileExists, initializeLockFile), the loader   *)
(* (loader.ts: loadEnv) and the CLI commands (cli.ts: handleInit,          *)
(* handleSet, handleList, ensureGitignore).                                *)
(*                                                                         *)
(* Strings are sequences of Unicode code points (naturals).  The UTF-8     *)
(* and UTF-16 encodings, the hex encoding and String.split are computed    *)
(* as Node computes them.  SHA-256, PBKDF2 and AES-256-GCM are replaced by *)
(* arithmetic mixing functions of the same shape (same inputs, same output *)
(* lengths): a keystream that is XORed on the plaintext bytes and a tag    *)
(* over key, IV and ciphertext that decrypt recomputes and compares.       *)
(***************************************************************************)

EXTENDS Naturals, Sequences, FiniteSets, TLC

VARIABLES
    file,       \* .env.lock: Absent, or its content as a sequence of JSON tokens
    gitignore,  \* .gitignore: Absent, or its content as a string
    env,        \* the calling process: [USER, USERNAME, cwd]
    op,         \* the operation that ran last, with its arguments
    ret,        \* what it returned or threw
    hist,       \* history: what the save calls made so far stored, while only
                \* initialize and save of a single process touched the store
    cx          \* what the callers of crypto.ts, loader.ts and of two
                \* concurrent saveSecret calls hold: [pc, ...], by specification

vars == <<file, gitignore, env, op, ret, hist, cx>>

---------------------------------------------------------------------------
(* Program constants of crypto.ts                                          *)

KEY_LENGTH == 32
IV_LENGTH == 16
TAG_LENGTH == 16
PBKDF2_ITERATIONS == 100000

---------------------------------------------------------------------------
(* Strings and encodings                                                   *)

Absent == [kind |-> "absent"]

\* the literals the code uses, as code points
ColonChar == 58
StrDefault == <<100, 101, 102, 97, 117, 108, 116>>             \* 'default'
StrProto == <<95, 95, 112, 114, 111, 116, 111, 95, 95>>        \* '__proto__'

RECURSIVE Concat(_)
\* the concatenation of a sequence of strings
Concat(ss) == IF ss = <<>> THEN <<>> ELSE Head(ss) \o Concat(Tail(ss))

\* Node's UTF-8 encoder on one code point; an unpaired surrogate is written
\* as U+FFFD (EF BF BD)
Utf8EncodeChar(cp) ==
    IF cp < 128 THEN <<cp>>
    ELSE IF cp < 2048 THEN <<192 + (cp \div 64), 128 + (cp % 64)>>
    ELSE IF cp >= 55296 /\ cp <= 57343 THEN <<239, 191, 189>>
    ELSE IF cp < 65536
      THEN <<224 + (cp \div 4096), 128 + ((cp \div 64) % 64), 128 + (cp % 64)>>
    ELSE <<240 + (cp \div 262144), 128 + ((cp \div 4096) % 64),
           128 + ((cp \div 64) % 64), 128 + (cp % 64)>>

\* the UTF-8 bytes of a string (cipher.update(value, 'utf8'), createHash.update)
Utf8Encode(s) == Concat([i \in 1..Len(s) |-> Utf8EncodeChar(s[i])])

IsCont(b) == b >= 128 /\ b < 192

RECURSIVE Utf8DecodeFrom(_, _)
\* Node's UTF-8 decoder from byte i on: an ill-formed byte yields U+FFFD
Utf8DecodeFrom(b, i) ==
    IF i > Len(b) THEN <<>>
    ELSE LET b1 == b[i]
             has(n) == i + n <= Len(b) /\ \A k \in 1..n : IsCont(b[i + k])
             cp2 == (b1 - 192) * 64 + (b[i + 1] - 128)
             cp3 == (b1 - 224) * 4096 + (b[i + 1] - 128) * 64 + (b[i + 2] - 128)
             cp4 == (b1 - 240) * 262144 + (b[i + 1] - 128) * 4096
                      + (b[i + 2] - 128) * 64 + (b[i + 3] - 128)
         IN  IF b1 < 128 THEN <<b1>> \o Utf8DecodeFrom(b, i + 1)
             ELSE IF b1 >= 194 /\ b1 < 224 /\ has(1)
               THEN <<cp2>> \o Utf8DecodeFrom(b, i + 2)
             ELSE IF b1 >= 224 /\ b1 < 240 /\ has(2) /\ cp3 >= 2048
                     /\ ~(cp3 >= 55296 /\ cp3 <= 57343)
               THEN <<cp3>> \o Utf8DecodeFrom(b, i + 3)
             ELSE IF b1 >= 240 /\ b1 < 245 /\ has(3) /\ cp4 >= 65536
                     /\ cp4 <= 1114111
               THEN <<cp4>> \o Utf8DecodeFrom(b, i + 4)
             ELSE <<65533>> \o Utf8DecodeFrom(b, i + 1)

\* bytes to string (decipher.update(.., 'utf8') + decipher.final('utf8'))
Utf8Decode(b) == Utf8DecodeFrom(b, 1)

\* the UTF-16 code units of one code point (a JavaScript string's elements)
Utf16EncodeChar(cp) ==
    IF cp < 65536 THEN <<cp>>
    ELSE <<55296 + ((cp - 65536) \div 1024), 56320 + ((cp - 65536) % 1024)>>

Utf16Encode(s) == Concat([i \in 1..Len(s) |-> Utf16EncodeChar(s[i])])

HexDigit(n) == IF n < 10 THEN 48 + n ELSE 87 + n

\* buf.toString('hex'): two lower-case digits per byte
HexEncode(b) ==
    [i \in 1..(2 * Len(b)) |->
        IF i % 2 = 1 THEN HexDigit(b[(i + 1) \div 2] \div 16)
                     ELSE HexDigit(b[i \div 2] % 16)]

\* the value of a hex digit, 16 when the character is none
HexVal(c) ==
    IF c >= 48 /\ c <= 57 THEN c - 48
    ELSE IF c >= 97 /\ c <= 102 THEN c - 87
    ELSE IF c >= 65 /\ c <= 70 THEN c - 55
    ELSE 16

RECURSIVE HexDecodeFrom(_, _)
\* Buffer.from(s, 'hex') from character i on: pairs of digits, stopping at
\* the first pair that is not two hex digits; a trailing single character
\* is dropped
HexDecodeFrom(s, i) ==
    IF i + 1 > Len(s) THEN <<>>
    ELSE IF HexVal(s[i]) = 16 \/ HexVal(s[i + 1]) = 16 THEN <<>>
    ELSE <<HexVal(s[i]) * 16 + HexVal(s[i + 1])>> \o HexDecodeFrom(s, i + 2)

HexDecode(s) == HexDecodeFrom(s, 1)

RECURSIVE SplitFrom(_, _, _, _)
\* String.prototype.split on a one-character separator: the fields of s from
\* character i on, cur being the field read so far
SplitFrom(s, sep, i, cur) ==
    IF i > Len(s) THEN <<cur>>
    ELSE IF s[i] = sep THEN <<cur>> \o SplitFrom(s, sep, i + 1, <<>>)
    ELSE SplitFrom(s, sep, i + 1, Append(cur, s[i]))

Split(s, sep) == SplitFrom(s, sep, 1, <<>>)

RECURSIVE XorByte(_, _)
XorByte(a, b) ==
    IF a = 0 THEN b
    ELSE IF b = 0 THEN a
    ELSE ((a + b) % 2) + 2 * XorByte(a \div 2, b \div 2)

---------------------------------------------------------------------------
(* The primitives of node:crypto, as mixing functions                      *)

RECURSIVE MixFrom(_, _, _)
\* a polynomial digest of a byte sequence, the core of the three primitives
MixFrom(b, i, h) ==
    IF i > Len(b) THEN h ELSE MixFrom(b, i + 1, (h * 31 + b[i] + 1) % 65521)

Mix(b) == MixFrom(b, 1, 7)

\* createHash('sha256').update(s).digest(): 32 bytes
Sha256(s) ==
    LET h == Mix(Utf8Encode(s))
    IN  [i \in 1..32 |-> (h * (2 * i + 1) + i * i) % 256]

\* pbkdf2Sync(password, salt, iterations, keylen, 'sha256')
Pbkdf2Sync(password, salt, iterations, keylen) ==
    LET p == Mix(Utf8Encode(password))
        s == Mix(salt)
    IN  [i \in 1..keylen |-> (p * (2 * i + 1) + s * (i + 3) + iterations + i) % 256]

\* the AES-256-GCM keystream for n bytes under (key, iv)
GcmKeystream(key, iv, n) ==
    LET k == Mix(key)
        v == Mix(iv)
    IN  [i \in 1..n |-> (k * 7 + v * 13 + i * 29) % 256]

\* cipher.update + cipher.final: the plaintext bytes XOR the keystream
GcmCrypt(key, iv, bytes) ==
    LET ks == GcmKeystream(key, iv, Len(bytes))
    IN  [i \in 1..Len(bytes) |-> XorByte(bytes[i], ks[i])]

\* a tag over key and IV alone
GcmTag_KeyAndIv(key, iv, ct) ==
    LET k == Mix(key)
        v == Mix(iv)
    IN  [j \in 1..TAG_LENGTH |-> (k * (j + 2) + v * (j + 4)) % 256]

\* cipher.getAuthTag(): 16 bytes over key, IV and ciphertext
GcmTag(key, iv, ct) ==
    LET k == Mix(key)
        v == Mix(iv)
        c == Mix(ct)
    IN  [j \in 1..TAG_LENGTH |-> (k * (j + 2) + v * (j + 4) + c * (2 * j + 5)) % 256]

---------------------------------------------------------------------------
(* crypto.ts                                                               *)

\* path.resolve(p) in a process whose working directory is cwd
PathResolve(cwd, p) ==
    IF p = <<>> THEN cwd
    ELSE IF Head(p) = 47 THEN p
    ELSE cwd \o <<47>> \o p

\* the account name with USERNAME looked up before USER
Username_UsernameFirst(e) ==
    IF e.USERNAME # <<>> THEN e.USERNAME
    ELSE IF e.USER # <<>> THEN e.USER
    ELSE StrDefault

\* process.env.USER || process.env.USERNAME || 'default': an unset variable
\* and an empty one are both the empty string here, both falsy in the code
Username(e) ==
    IF e.USER # <<>> THEN e.USER
    ELSE IF e.USERNAME # <<>> THEN e.USERNAME
    ELSE StrDefault

\* deriveKey with the salt made of the path as it was passed
deriveKey_Unresolved(e, projectPath) ==
    LET saltInput == Username(e) \o <<ColonChar>> \o projectPath
    IN  Pbkdf2Sync(saltInput, Sha256(saltInput), PBKDF2_ITERATIONS, KEY_LENGTH)

\* deriveKey with the salt made of the account name alone
deriveKey_AccountOnly(e, projectPath) ==
    LET saltInput == Username(e) \o <<ColonChar>>
    IN  Pbkdf2Sync(saltInput, Sha256(saltInput), PBKDF2_ITERATIONS, KEY_LENGTH)

deriveKey(e, projectPath) ==
    LET username == Username(e)
        resolvedPath == PathResolve(e.cwd, projectPath)
        saltInput == username \o <<ColonChar>> \o resolvedPath
        salt == Sha256(saltInput)
    IN  Pbkdf2Sync(saltInput, salt, PBKDF2_ITERATIONS, KEY_LENGTH)

\* getProjectPath(): process.cwd()
getProjectPath(e) == e.cwd

\* encrypt with the tag and the ciphertext written in the wrong order
encrypt_TagLast(value, key, iv) ==
    LET encrypted == GcmCrypt(key, iv, Utf8Encode(value))
        tag == GcmTag(key, iv, encrypted)
    IN  HexEncode(iv) \o <<ColonChar>> \o HexEncode(encrypted) \o <<ColonChar>>
          \o HexEncode(tag)

\* encrypt with the same IV in every call
encrypt_FixedIv(value, key, iv) ==
    LET iv0 == [i \in 1..IV_LENGTH |-> 0]
        encrypted == GcmCrypt(key, iv0, Utf8Encode(value))
        tag == GcmTag(key, iv0, encrypted)
    IN  HexEncode(iv0) \o <<ColonChar>> \o HexEncode(tag) \o <<ColonChar>>
          \o HexEncode(encrypted)

\* encrypt(value, key) with the 16 bytes randomBytes returned
encrypt(value, key, iv) ==
    LET encrypted == GcmCrypt(key, iv, Utf8Encode(value))
        tag == GcmTag(key, iv, encrypted)
    IN  HexEncode(iv) \o <<ColonChar>> \o HexEncode(tag) \o <<ColonChar>>
          \o HexEncode(encrypted)

Ok(v) == [kind |-> "ok", value |-> v]
Throw(e) == [kind |-> "throw", error |-> e]

\* decrypt without the verification of the tag
decrypt_Unauthenticated(encryptedValue, key) ==
    LET parts == Split(encryptedValue, ColonChar)
    IN  IF Len(parts) # 3
          THEN Throw([type |-> "Error", msg |-> "Invalid encrypted value format"])
        ELSE
          LET iv == HexDecode(parts[1])
              tag == HexDecode(parts[2])
              ct == HexDecode(parts[3])
          IN  IF Len(iv) # IV_LENGTH \/ Len(tag) # TAG_LENGTH
                THEN Throw([type |-> "Error", msg |-> "Invalid IV or tag length"])
              ELSE Ok(Utf8Decode(GcmCrypt(key, iv, ct)))

\* decrypt without the check of the IV and tag lengths
decrypt_NoLengthCheck(encryptedValue, key) ==
    LET parts == Split(encryptedValue, ColonChar)
    IN  IF Len(parts) # 3
          THEN Throw([type |-> "Error", msg |-> "Invalid encrypted value format"])
        ELSE
          LET iv == HexDecode(parts[1])
              tag == HexDecode(parts[2])
              ct == HexDecode(parts[3])
          IN  IF GcmTag(key, iv, ct) # tag
                THEN Throw([type |-> "Error",
                            msg |-> "Unsupported state or unable to authenticate data"])
              ELSE Ok(Utf8Decode(GcmCrypt(key, iv, ct)))

\* decrypt(encryptedValue, key): Ok(plaintext) or Throw(error)
decrypt(encryptedValue, key) ==
    LET parts == Split(encryptedValue, ColonChar)
    IN  IF Len(parts) # 3
          THEN Throw([type |-> "Error", msg |-> "Invalid encrypted value format"])
        ELSE
          LET iv == HexDecode(parts[1])
              tag == HexDecode(parts[2])
              ct == HexDecode(parts[3])
          IN  IF Len(iv) # IV_LENGTH \/ Len(tag) # TAG_LENGTH
                THEN Throw([type |-> "Error", msg |-> "Invalid IV or tag length"])
              ELSE IF GcmTag(key, iv, ct) # tag
                THEN Throw([type |-> "Error",
                            msg |-> "Unsupported state or unable to authenticate data"])
              ELSE Ok(Utf8Decode(GcmCrypt(key, iv, ct)))

---------------------------------------------------------------------------
(* JSON and JavaScript objects.  The content of .env.lock is kept as the   *)
(* sequence of JSON tokens of its text (punctuators, string literals,      *)
(* numbers, null, and "junk" for text that is no JSON token); JSON.parse   *)
(* and JSON.stringify work on tokens.  A JavaScript value is               *)
(*   [t |-> "object", props |-> <<[k |-> name, v |-> value], ...>>]        *)
(*   [t |-> "array", items |-> <<value, ...>>, props |-> <<...>>]          *)
(*   [t |-> "string", s |-> string]  [t |-> "number", n |-> n]  [t |-> "null"] *)
(* with the own properties of an object in insertion order.                *)

Tok(t) == [t |-> t]
StrTok(s) == [t |-> "str", s |-> s]
NumTok(n) == [t |-> "num", n |-> n]

JsString(s) == [t |-> "string", s |-> s]
JsNumber(n) == [t |-> "number", n |-> n]
JsNull == [t |-> "null"]
JsObject(props) == [t |-> "object", props |-> props]
JsArray(items, props) == [t |-> "array", items |-> items, props |-> props]

FileOf(text) == [kind |-> "file", text |-> text]

\* the position of own property k in props, 0 when there is none
PropIndex(props, k) ==
    IF \E i \in 1..Len(props) : props[i].k = k
      THEN CHOOSE i \in 1..Len(props) : props[i].k = k
      ELSE 0

\* CreateDataProperty: the value of an own property is replaced in place,
\* a new property goes last
DefineProp(props, k, v) ==
    LET i == PropIndex(props, k)
    IN  IF i = 0 THEN Append(props, [k |-> k, v |-> v])
        ELSE [props EXCEPT ![i] = [k |-> k, v |-> v]]

ParseFail == [ok |-> FALSE, val |-> JsNull, next |-> 0]

RECURSIVE ParseValue(_, _), ParseMembers(_, _, _), ParseItems(_, _, _)
\* the JSON value that starts at token i: [ok, val, next]
ParseValue(t, i) ==
    IF i > Len(t) THEN ParseFail
    ELSE IF t[i].t = "str" THEN [ok |-> TRUE, val |-> JsString(t[i].s), next |-> i + 1]
    ELSE IF t[i].t = "num" THEN [ok |-> TRUE, val |-> JsNumber(t[i].n), next |-> i + 1]
    ELSE IF t[i].t = "null" THEN [ok |-> TRUE, val |-> JsNull, next |-> i + 1]
    ELSE IF t[i].t = "{"
      THEN IF i + 1 <= Len(t) /\ t[i + 1].t = "}"
             THEN [ok |-> TRUE, val |-> JsObject(<<>>), next |-> i + 2]
             ELSE ParseMembers(t, i + 1, <<>>)
    ELSE IF t[i].t = "["
      THEN IF i + 1 <= Len(t) /\ t[i + 1].t = "]"
             THEN [ok |-> TRUE, val |-> JsArray(<<>>, <<>>), next |-> i + 2]
             ELSE ParseItems(t, i + 1, <<>>)
    ELSE ParseFail

\* the members of an object from token i on, acc being those read so far; a
\* repeated name keeps its first place and takes the last value
ParseMembers(t, i, acc) ==
    IF i + 1 > Len(t) \/ t[i].t # "str" \/ t[i + 1].t # ":" THEN ParseFail
    ELSE LET v == ParseValue(t, i + 2)
         IN  IF ~v.ok \/ v.next > Len(t) THEN ParseFail
             ELSE LET acc2 == DefineProp(acc, t[i].s, v.val)
                  IN  IF t[v.next].t = "," THEN ParseMembers(t, v.next + 1, acc2)
                      ELSE IF t[v.next].t = "}"
                        THEN [ok |-> TRUE, val |-> JsObject(acc2), next |-> v.next + 1]
                      ELSE ParseFail

ParseItems(t, i, acc) ==
    LET v == ParseValue(t, i)
    IN  IF ~v.ok \/ v.next > Len(t) THEN ParseFail
        ELSE LET acc2 == Append(acc, v.val)
             IN  IF t[v.next].t = "," THEN ParseItems(t, v.next + 1, acc2)
                 ELSE IF t[v.next].t = "]"
                   THEN [ok |-> TRUE, val |-> JsArray(acc2, <<>>), next |-> v.next + 1]
                 ELSE ParseFail

SyntaxError == [type |-> "SyntaxError", msg |-> "Unexpected token in JSON"]

\* JSON.parse(text): Ok(value), or Throw(SyntaxError) unless the whole text
\* is one JSON value
JsonParse(t) ==
    LET r == ParseValue(t, 1)
    IN  IF r.ok /\ r.next = Len(t) + 1 THEN Ok(r.val) ELSE Throw(SyntaxError)

RECURSIVE JsonStringify(_), StringifyMembers(_, _), StringifyItems(_, _)
\* JSON.stringify(value, null, 2): the tokens of the text (the indentation is
\* white space between tokens).  The named properties of an array are not
\* written.
JsonStringify(v) ==
    IF v.t = "string" THEN <<StrTok(v.s)>>
    ELSE IF v.t = "number" THEN <<NumTok(v.n)>>
    ELSE IF v.t = "null" THEN <<Tok("null")>>
    ELSE IF v.t = "object"
      THEN <<Tok("{")>> \o StringifyMembers(v.props, 1) \o <<Tok("}")>>
    ELSE <<Tok("[")>> \o StringifyItems(v.items, 1) \o <<Tok("]")>>

StringifyMembers(props, i) ==
    IF i > Len(props) THEN <<>>
    ELSE <<StrTok(props[i].k), Tok(":")>> \o JsonStringify(props[i].v)
           \o (IF i < Len(props) THEN <<Tok(",")>> ELSE <<>>)
           \o StringifyMembers(props, i + 1)

StringifyItems(items, i) ==
    IF i > Len(items) THEN <<>>
    ELSE JsonStringify(items[i])
           \o (IF i < Len(items) THEN <<Tok(",")>> ELSE <<>>)
           \o StringifyItems(items, i + 1)

\* the decimal digits of an array index below 10
IndexKey(i) == <<48 + i>>

\* Object.entries(value) for a value that is not null: the own enumerable
\* string-keyed properties in order
ObjectEntries(v) ==
    IF v.t = "object" THEN v.props
    ELSE IF v.t = "array"
      THEN [i \in 1..Len(v.items) |-> [k |-> IndexKey(i - 1), v |-> v.items[i]]]
             \o v.props
    ELSE IF v.t = "string"
      THEN [i \in 1..Len(v.s) |-> [k |-> IndexKey(i - 1), v |-> JsString(<<v.s[i]>>)]]
    ELSE <<>>

\* Object.keys(value)
ObjectKeys(v) == LET es == ObjectEntries(v) IN [i \in 1..Len(es) |-> es[i].k]

NullTypeError ==
    [type |-> "TypeError", msg |-> "Cannot convert undefined or null to object"]
SetTypeError == [type |-> "TypeError", msg |-> "Cannot set or create property"]

\* target[k] = v in strict code, v a string: Ok(the target after it) or
\* Throw(TypeError).  On an object without an own property '__proto__' the
\* assignment to '__proto__' runs the setter of Object.prototype, which
\* ignores a value that is neither an object nor null.
SetProp(target, k, v) ==
    IF target.t = "null" \/ target.t = "string" \/ target.t = "number"
      THEN Throw(SetTypeError)
    ELSE IF k = StrProto /\ PropIndex(target.props, k) = 0 THEN Ok(target)
    ELSE Ok([target EXCEPT !.props = DefineProp(target.props, k, v)])

RECURSIVE SeqLess(_, _, _)
\* a < b, comparing element by element from position i, a proper prefix first
SeqLess(a, b, i) ==
    IF i > Len(b) THEN FALSE
    ELSE IF i > Len(a) THEN TRUE
    ELSE IF a[i] # b[i] THEN a[i] < b[i]
    ELSE SeqLess(a, b, i + 1)

\* strings compared by code point, which is the order of their UTF-8 bytes
StringLess_CodePoints(a, b) == SeqLess(a, b, 1)

\* the order of Array.prototype.sort() without a comparator: strings by
\* their UTF-16 code units
StringLess(a, b) == SeqLess(Utf16Encode(a), Utf16Encode(b), 1)

RECURSIVE InsertSorted(_, _)
InsertSorted(sorted, x) ==
    IF sorted = <<>> THEN <<x>>
    ELSE IF StringLess(x, Head(sorted)) THEN <<x>> \o sorted
    ELSE <<Head(sorted)>> \o InsertSorted(Tail(sorted), x)

RECURSIVE SortFrom(_, _, _)
SortFrom(a, i, acc) ==
    IF i > Len(a) THEN acc ELSE SortFrom(a, i + 1, InsertSorted(acc, a[i]))

\* keys.sort()
ArraySort(a) == SortFrom(a, 1, <<>>)

---------------------------------------------------------------------------
(* Inputs                                                                  *)

\* the most entries the store is let to grow to
MaxEntries == 2

\* secret names: two that differ only in letter case (fullwidth A, U+FF21 and
\* U+FF41), one outside the Basic Multilingual Plane (U+1F600, two UTF-16
\* code units, four UTF-8 bytes), and '__proto__'
StrUpper == <<65313>>
StrLower == <<65345>>
StrEmoji == <<128512>>
Names == {StrUpper, StrLower, StrEmoji, StrProto}

\* plaintexts: empty, and one with a two-byte character and a ':'
Values == {<<>>, <<233, 58>>}

\* a plaintext the set command is given: 'p=q r'
StrEqualsValue == <<112, 61, 113, 32, 114>>
AllValues == Values \cup {StrEqualsValue}

\* what randomBytes(n) may return
randomBytes(n) == {[i \in 1..n |-> (s * i + s) % 256] : s \in {37, 101}}

StrCwd == <<47, 112>>               \* '/p'
\* the processes that call the store: USER set, or neither USER nor USERNAME
Envs == {[USER |-> <<97, 108>>, USERNAME |-> <<>>, cwd |-> StrCwd],
         [USER |-> <<>>, USERNAME |-> <<>>, cwd |-> StrCwd]}

\* the processes a store file can come to: those above, one of the account
\* 'al' in another project directory ('/q'), and one whose account name 'al'
\* is in USERNAME
AllEnvs ==
    Envs \cup {[USER |-> <<97, 108>>, USERNAME |-> <<>>, cwd |-> <<47, 113>>],
               [USER |-> <<>>, USERNAME |-> <<97, 108>>, cwd |-> StrCwd]}

\* content another program leaves in .env.lock: text that is no JSON
\* ('invalid json{'), a text cut off after '{', a mapping with a value that
\* is no Encrypted Value, and the JSON texts null and []
ForeignFiles ==
    {FileOf(<<Tok("junk"), Tok("junk"), Tok("{")>>),
     FileOf(<<Tok("{")>>),
     FileOf(<<Tok("{"), StrTok(StrUpper), Tok(":"), StrTok(<<120, 45, 121>>), Tok("}")>>),
     FileOf(<<Tok("null")>>),
     FileOf(<<Tok("["), Tok("]")>>)}

\* content that is a JSON text and no mapping: null, [], ["x"], "x", "" and 7
NonMappingFiles ==
    {FileOf(<<Tok("null")>>),
     FileOf(<<Tok("["), Tok("]")>>),
     FileOf(<<Tok("["), StrTok(<<120>>), Tok("]")>>),
     FileOf(<<StrTok(<<120>>)>>),
     FileOf(<<StrTok(<<>>)>>),
     FileOf(<<NumTok(7)>>)}

\* the text of a string-valued member of a foreign file
StoredStringsOf(fs) ==
    {fs.text[i].s : i \in {j \in 1..Len(fs.text) : fs.text[j].t = "str"}}

\* The values of deriveKey, encrypt and decrypt on the inputs above, computed
\* once: the keys of the calling processes, the Encrypted Values they can
\* write, and the result of decrypt on every string the store can hold.
DeriveKeyMemo == [e \in AllEnvs |-> deriveKey(e, getProjectPath(e))]
Keys == {DeriveKeyMemo[e] : e \in AllEnvs}
EncryptMemo ==
    [value \in AllValues, key \in Keys, iv \in randomBytes(IV_LENGTH) |->
        encrypt(value, key, iv)]
StoredStrings ==
    {EncryptMemo[value, key, iv] :
        value \in AllValues, key \in Keys, iv \in randomBytes(IV_LENGTH)}
      \cup UNION {StoredStringsOf(f) : f \in ForeignFiles \cup NonMappingFiles}
DecryptMemo == [encryptedValue \in StoredStrings, key \in Keys |->
                   decrypt(encryptedValue, key)]

\* the number of entries of the store, 0 when it holds no mapping
StoreSize(fs) ==
    IF fs = Absent THEN 0
    ELSE LET parsed == JsonParse(fs.text)
         IN  IF parsed.kind = "throw" \/ parsed.value.t = "null" THEN 0
             ELSE Len(ObjectEntries(parsed.value))

---------------------------------------------------------------------------
(* store.ts.  Each operation is given the store file and the calling       *)
(* process and yields [ret, file]: what it returns or throws and the file  *)
(* it leaves.                                                              *)

Undefined == [t |-> "undefined"]

InvalidJsonError ==
    [type |-> "Error", msg |-> "Invalid JSON in .env.lock. File may be corrupted."]
AlreadyExistsError == [type |-> "Error", msg |-> ".env.lock already exists."]
NotAFunctionError ==
    [type |-> "TypeError", msg |-> "encryptedValue.split is not a function"]

RECURSIVE DecryptEntries_SkipFailed(_, _, _, _)
\* the loop of loadSecrets leaving out the entries that do not decrypt
DecryptEntries_SkipFailed(entries, key, i, decrypted) ==
    IF i > Len(entries) THEN Ok(decrypted)
    ELSE LET r == IF entries[i].v.t = "string"
                    THEN DecryptMemo[entries[i].v.s, key]
                    ELSE Throw(NotAFunctionError)
         IN  DecryptEntries_SkipFailed(entries, key, i + 1,
                 IF r.kind = "throw" THEN decrypted
                 ELSE SetProp(decrypted, entries[i].k, JsString(r.value)).value)

RECURSIVE DecryptEntries(_, _, _, _)
\* the for loop of loadSecrets over Object.entries(encryptedStore), from
\* entry i on, decrypted being the object filled so far
DecryptEntries(entries, key, i, decrypted) ==
    IF i > Len(entries) THEN Ok(decrypted)
    ELSE LET envKey == entries[i].k
             encryptedValue == entries[i].v
             r == IF encryptedValue.t = "string"
                    THEN DecryptMemo[encryptedValue.s, key]
                    ELSE Throw(NotAFunctionError)
         IN  IF r.kind = "throw"
               THEN Throw([type |-> "Error", msg |-> "Failed to decrypt key",
                           key |-> envKey, cause |-> r.error.msg])
               ELSE DecryptEntries(entries, key, i + 1,
                        SetProp(decrypted, envKey, JsString(r.value)).value)

\* loadSecrets creating the store file when there is none
loadSecrets_AutoCreate(fs, e) ==
    IF fs = Absent
      THEN [ret |-> Ok(JsObject(<<>>)), file |-> FileOf(JsonStringify(JsObject(<<>>)))]
    ELSE LET parsed == JsonParse(fs.text)
         IN  IF parsed.kind = "throw"
               THEN [ret |-> Throw(InvalidJsonError), file |-> fs]
             ELSE IF parsed.value.t = "null"
               THEN [ret |-> Throw(NullTypeError), file |-> fs]
             ELSE [ret |-> DecryptEntries(ObjectEntries(parsed.value),
                                          DeriveKeyMemo[e], 1, JsObject(<<>>)),
                   file |-> fs]

loadSecrets(fs, e) ==
    IF fs = Absent THEN [ret |-> Ok(JsObject(<<>>)), file |-> fs]
    ELSE LET parsed == JsonParse(fs.text)
             key == DeriveKeyMemo[e]
         IN  IF parsed.kind = "throw"
               THEN [ret |-> Throw(InvalidJsonError), file |-> fs]
             ELSE IF parsed.value.t = "null"
               THEN [ret |-> Throw(NullTypeError), file |-> fs]
             ELSE [ret |-> DecryptEntries(ObjectEntries(parsed.value), key, 1,
                                          JsObject(<<>>)),
                   file |-> fs]

\* saveSecret writing the value as it was given
saveSecret_Plaintext(fs, e, key, value, iv) ==
    LET parsed == IF fs = Absent THEN Throw(SyntaxError) ELSE JsonParse(fs.text)
        encryptedStore == IF parsed.kind = "throw" THEN JsObject(<<>>)
                          ELSE parsed.value
        set == SetProp(encryptedStore, key, JsString(value))
    IN  IF set.kind = "throw" THEN [ret |-> set, file |-> fs]
        ELSE [ret |-> Ok(Undefined), file |-> FileOf(JsonStringify(set.value))]

\* saveSecret starting from an empty mapping whatever the file holds
saveSecret_StartFresh(fs, e, key, value, iv) ==
    LET set == SetProp(JsObject(<<>>), key,
                       JsString(EncryptMemo[value, DeriveKeyMemo[e], iv]))
    IN  [ret |-> Ok(Undefined), file |-> FileOf(JsonStringify(set.value))]

\* saveSecret(key, value), iv being the bytes randomBytes returns in encrypt
saveSecret(fs, e, key, value, iv) ==
    LET keyBuffer == DeriveKeyMemo[e]
        parsed == IF fs = Absent THEN Throw(SyntaxError) ELSE JsonParse(fs.text)
        encryptedStore == IF parsed.kind = "throw" THEN JsObject(<<>>)
                          ELSE parsed.value
        set == SetProp(encryptedStore, key, JsString(EncryptMemo[value, keyBuffer, iv]))
    IN  IF set.kind = "throw" THEN [ret |-> set, file |-> fs]
        ELSE [ret |-> Ok(Undefined), file |-> FileOf(JsonStringify(set.value))]

\* listKeys starting from an empty mapping when the file does not parse, as
\* saveSecret does
listKeys_Recover(fs) ==
    IF fs = Absent THEN [ret |-> Ok(<<>>), file |-> fs]
    ELSE LET parsed == JsonParse(fs.text)
         IN  IF parsed.kind = "throw" THEN [ret |-> Ok(<<>>), file |-> fs]
             ELSE IF parsed.value.t = "null"
               THEN [ret |-> Throw(NullTypeError), file |-> fs]
             ELSE [ret |-> Ok(ArraySort(ObjectKeys(parsed.value))), file |-> fs]

\* listKeys rejecting a store with a value that is no Encrypted Value of
\* three fields
listKeys_Validating(fs) ==
    IF fs = Absent THEN [ret |-> Ok(<<>>), file |-> fs]
    ELSE LET parsed == JsonParse(fs.text)
         IN  IF parsed.kind = "throw"
               THEN [ret |-> Throw(InvalidJsonError), file |-> fs]
             ELSE IF parsed.value.t = "null"
               THEN [ret |-> Throw(NullTypeError), file |-> fs]
             ELSE LET es == ObjectEntries(parsed.value)
                  IN  IF \E i \in 1..Len(es) :
                            \/ es[i].v.t # "string"
                            \/ Len(Split(es[i].v.s, ColonChar)) # 3
                        THEN [ret |-> Throw([type |-> "Error",
                                             msg |-> "Invalid encrypted value format"]),
                              file |-> fs]
                        ELSE [ret |-> Ok(ArraySort(ObjectKeys(parsed.value))),
                              file |-> fs]

listKeys(fs) ==
    IF fs = Absent THEN [ret |-> Ok(<<>>), file |-> fs]
    ELSE LET parsed == JsonParse(fs.text)
         IN  IF parsed.kind = "throw"
               THEN [ret |-> Throw(InvalidJsonError), file |-> fs]
             ELSE IF parsed.value.t = "null"
               THEN [ret |-> Throw(NullTypeError), file |-> fs]
             ELSE [ret |-> Ok(ArraySort(ObjectKeys(parsed.value))), file |-> fs]

lockFileExists(fs) == [ret |-> Ok(fs # Absent), file |-> fs]

\* initializeLockFile without the check for an existing file
initializeLockFile_Overwrite(fs) ==
    [ret |-> Ok(Undefined), file |-> FileOf(JsonStringify(JsObject(<<>>)))]

initializeLockFile(fs) ==
    IF fs # Absent THEN [ret |-> Throw(AlreadyExistsError), file |-> fs]
    ELSE [ret |-> Ok(Undefined), file |-> FileOf(JsonStringify(JsObject(<<>>)))]

---------------------------------------------------------------------------
(* The store used through store.ts                                         *)

CxIdle == [pc |-> "idle"]
Dirty == [clean |-> FALSE, saved |-> <<>>]

Init ==
    /\ file = Absent
    /\ gitignore = Absent
    /\ env \in Envs
    /\ op = [name |-> "start"]
    /\ ret = Ok(Undefined)
    /\ hist = [clean |-> TRUE, saved |-> <<>>]
    /\ cx = CxIdle

Initialize ==
    LET r == initializeLockFile(file)
    IN  /\ file' = r.file
        /\ ret' = r.ret
        /\ op' = [name |-> "initialize"]
        /\ UNCHANGED <<gitignore, env, hist, cx>>

Save ==
    \E key \in Names, value \in Values, iv \in randomBytes(IV_LENGTH) :
        LET r == saveSecret(file, env, key, value, iv)
        IN  /\ StoreSize(r.file) <= MaxEntries
            /\ file' = r.file
            /\ ret' = r.ret
            /\ op' = [name |-> "save", key |-> key, value |-> value]
            /\ hist' = IF hist.clean /\ r.ret.kind = "ok"
                         THEN [hist EXCEPT !.saved = (key :> value) @@ @]
                         ELSE Dirty
            /\ UNCHANGED <<gitignore, env, cx>>

LoadAll ==
    LET r == loadSecrets(file, env)
    IN  /\ file' = r.file
        /\ ret' = r.ret
        /\ op' = [name |-> "load_all"]
        /\ UNCHANGED <<gitignore, env, hist, cx>>

ListNames ==
    LET r == listKeys(file)
    IN  /\ file' = r.file
        /\ ret' = r.ret
        /\ op' = [name |-> "list_names"]
        /\ UNCHANGED <<gitignore, env, hist, cx>>

Exists ==
    LET r == lockFileExists(file)
    IN  /\ file' = r.file
        /\ ret' = r.ret
        /\ op' = [name |-> "exists"]
        /\ UNCHANGED <<gitignore, env, hist, cx>>

\* another program writes .env.lock
ForeignWrite ==
    \E f \in ForeignFiles :
        /\ file' = f
        /\ op' = [name |-> "foreign write"]
        /\ ret' = Ok(Undefined)
        /\ hist' = Dirty
        /\ UNCHANGED <<gitignore, env, cx>>

\* the next call comes from a process of another account
NewProcess ==
    \E e \in Envs \ {env} :
        /\ env' = e
        /\ op' = [name |-> "new process"]
        /\ ret' = Ok(Undefined)
        /\ hist' = Dirty
        /\ UNCHANGED <<file, gitignore, cx>>

Next == Initialize \/ Save \/ LoadAll \/ ListNames \/ Exists \/ ForeignWrite \/ NewProcess

Spec == Init /\ [][Next]_vars

---------------------------------------------------------------------------
(* store.ts on a .env.lock whose content is a JSON text and no mapping     *)

InitNonMapping ==
    /\ file \in NonMappingFiles \cup {FileOf(<<Tok("{")>>)}
    /\ gitignore = Absent
    /\ env \in Envs
    /\ op = [name |-> "start"]
    /\ ret = Ok(Undefined)
    /\ hist = Dirty
    /\ cx = CxIdle

NextNonMapping == Save \/ LoadAll \/ ListNames

SpecNonMapping == InitNonMapping /\ [][NextNonMapping]_vars

---------------------------------------------------------------------------
(* store.ts: initialize() and save() alone, by the processes of two        *)
(* accounts, on a store that is absent at first or was left by another     *)
(* program                                                                 *)

InitKeep ==
    /\ file \in {Absent} \cup ForeignFiles
    /\ gitignore = Absent
    /\ env \in Envs
    /\ op = [name |-> "start"]
    /\ ret = Ok(Undefined)
    /\ hist = Dirty
    /\ cx = CxIdle

NextKeep == Initialize \/ Save \/ NewProcess

SpecKeep == InitKeep /\ [][NextKeep]_vars

---------------------------------------------------------------------------
(* cli.ts: the init command.  .gitignore is Absent or [kind |-> "file",    *)
(* text |-> its content as a string].                                      *)

StrEnvFile == <<46, 101, 110, 118>>                             \* '.env'
StrEnvLock == <<46, 101, 110, 118, 46, 108, 111, 99, 107>>      \* '.env.lock'
NewLine == <<10>>

\* the white space and line terminators String.prototype.trim removes
IsWhiteSpace(c) ==
    \/ c \in {9, 10, 11, 12, 13, 32, 160, 5760, 8232, 8233, 8239, 8287, 12288, 65279}
    \/ (c >= 8192 /\ c <= 8202)

\* line.trim()
Trim(s) ==
    LET keep == {i \in 1..Len(s) : ~IsWhiteSpace(s[i])}
    IN  IF keep = {} THEN <<>>
        ELSE LET first == CHOOSE i \in keep : \A j \in keep : i <= j
                 last == CHOOSE i \in keep : \A j \in keep : j <= i
             IN  SubSeq(s, first, last)

\* lines.includes(x)
Includes(lines, x) == \E i \in 1..Len(lines) : lines[i] = x

\* ensureGitignore(): the .gitignore it leaves
ensureGitignore(gi) ==
    LET gitignoreContent == IF gi = Absent THEN <<>> ELSE gi.text
        split == Split(gitignoreContent, 10)
        lines == [i \in 1..Len(split) |-> Trim(split[i])]
        needsEnv == ~Includes(lines, StrEnvFile)
        needsEnvLock == ~Includes(lines, StrEnvLock)
        c1 == IF gitignoreContent # <<>>
                   /\ gitignoreContent[Len(gitignoreContent)] # 10
                THEN gitignoreContent \o NewLine ELSE gitignoreContent
        c2 == IF needsEnv THEN c1 \o StrEnvFile \o NewLine ELSE c1
        c3 == IF needsEnvLock THEN c2 \o StrEnvLock \o NewLine ELSE c2
    IN  IF needsEnv \/ needsEnvLock THEN FileOf(c3) ELSE gi

\* the text of the messages with a fixed wording, by the name they have here
MessageText(msg) ==
    CASE msg = "Invalid JSON in .env.lock. File may be corrupted." ->
             <<73, 110, 118, 97, 108, 105, 100, 32, 74, 83, 79, 78, 32, 105,
               110, 32, 46, 101, 110, 118, 46, 108, 111, 99, 107, 46, 32, 70,
               105, 108, 101, 32, 109, 97, 121, 32, 98, 101, 32, 99, 111,
               114, 114, 117, 112, 116, 101, 100, 46>>
      [] msg = ".env.lock already exists." ->
             <<46, 101, 110, 118, 46, 108, 111, 99, 107, 32, 97, 108, 114,
               101, 97, 100, 121, 32, 101, 120, 105, 115, 116, 115, 46>>
      [] msg = "encryptedValue.split is not a function" ->
             <<101, 110, 99, 114, 121, 112, 116, 101, 100, 86, 97, 108, 117,
               101, 46, 115, 112, 108, 105, 116, 32, 105, 115, 32, 110, 111,
               116, 32, 97, 32, 102, 117, 110, 99, 116, 105, 111, 110>>
      [] msg = "Cannot convert undefined or null to object" ->
             <<67, 97, 110, 110, 111, 116, 32, 99, 111, 110, 118, 101, 114,
               116, 32, 117, 110, 100, 101, 102, 105, 110, 101, 100, 32, 111,
               114, 32, 110, 117, 108, 108, 32, 116, 111, 32, 111, 98, 106,
               101, 99, 116>>
      [] msg = "Cannot set or create property" ->
             <<67, 97, 110, 110, 111, 116, 32, 115, 101, 116, 32, 111, 114,
               32, 99, 114, 101, 97, 116, 101, 32, 112, 114, 111, 112, 101,
               114, 116, 121>>
      [] msg = "Unexpected token in JSON" ->
             <<85, 110, 101, 120, 112, 101, 99, 116, 101, 100, 32, 116, 111,
               107, 101, 110, 32, 105, 110, 32, 74, 83, 79, 78>>
      [] msg = "Invalid encrypted value format" ->
             <<73, 110, 118, 97, 108, 105, 100, 32, 101, 110, 99, 114, 121,
               112, 116, 101, 100, 32, 118, 97, 108, 117, 101, 32, 102, 111,
               114, 109, 97, 116>>
      [] msg = "Invalid IV or tag length" ->
             <<73, 110, 118, 97, 108, 105, 100, 32, 73, 86, 32, 111, 114, 32,
               116, 97, 103, 32, 108, 101, 110, 103, 116, 104>>
      [] msg = "Unsupported state or unable to authenticate data" ->
             <<85, 110, 115, 117, 112, 112, 111, 114, 116, 101, 100, 32, 115,
               116, 97, 116, 101, 32, 111, 114, 32, 117, 110, 97, 98, 108,
               101, 32, 116, 111, 32, 97, 117, 116, 104, 101, 110, 116, 105,
               99, 97, 116, 101, 32, 100, 97, 116, 97>>

\* 'Failed to decrypt key "'
StrFailedToDecrypt ==
    <<70, 97, 105, 108, 101, 100, 32, 116, 111, 32, 100, 101, 99, 114, 121,
      112, 116, 32, 107, 101, 121, 32, 34>>
\* '": '
StrQuoteColon ==
    <<34, 58, 32>>

\* error.message
Message(error) ==
    IF error.msg = "Failed to decrypt key"
      THEN StrFailedToDecrypt \o error.key \o StrQuoteColon \o MessageText(error.cause)
      ELSE MessageText(error.msg)

\* 'Error: '
StrError ==
    <<69, 114, 114, 111, 114, 58, 32>>
\* 'Usage: env-guard set KEY=value'
StrUsage ==
    <<85, 115, 97, 103, 101, 58, 32, 101, 110, 118, 45, 103, 117, 97, 114,
      100, 32, 115, 101, 116, 32, 75, 69, 89, 61, 118, 97, 108, 117, 101>>
\* 'Invalid format. Use KEY=value'
StrInvalidFormat ==
    <<73, 110, 118, 97, 108, 105, 100, 32, 102, 111, 114, 109, 97, 116, 46,
      32, 85, 115, 101, 32, 75, 69, 89, 61, 118, 97, 108, 117, 101>>
\* 'Key cannot be empty'
StrKeyEmpty ==
    <<75, 101, 121, 32, 99, 97, 110, 110, 111, 116, 32, 98, 101, 32, 101,
      109, 112, 116, 121>>
\* " not found. Run 'env-guard init' first."
StrNotFound ==
    <<32, 110, 111, 116, 32, 102, 111, 117, 110, 100, 46, 32, 82, 117, 110,
      32, 39, 101, 110, 118, 45, 103, 117, 97, 114, 100, 32, 105, 110, 105,
      116, 39, 32, 102, 105, 114, 115, 116, 46>>
\* '\u2713 Set ' (a check mark, U+2713)
StrSet ==
    <<10003, 32, 83, 101, 116, 32>>
\* 'No secrets stored.'
StrNoSecrets ==
    <<78, 111, 32, 115, 101, 99, 114, 101, 116, 115, 32, 115, 116, 111, 114,
      101, 100, 46>>
\* 'Stored keys:'
StrStoredKeys ==
    <<83, 116, 111, 114, 101, 100, 32, 107, 101, 121, 115, 58>>
\* '  - '
StrListItem ==
    <<32, 32, 45, 32>>
\* ' already exists.'
StrAlreadyExists ==
    <<32, 97, 108, 114, 101, 97, 100, 121, 32, 101, 120, 105, 115, 116, 115,
      46>>
\* '\u2713 Initialized '
StrInitialized ==
    <<10003, 32, 73, 110, 105, 116, 105, 97, 108, 105, 122, 101, 100, 32>>
\* '\u2713 Added '
StrAdded ==
    <<10003, 32, 65, 100, 100, 101, 100, 32>>
\* ' and '
StrAnd ==
    <<32, 97, 110, 100, 32>>
\* ' to .gitignore'
StrToGitignore ==
    <<32, 116, 111, 32, 46, 103, 105, 116, 105, 103, 110, 111, 114, 101>>

Exit(code, stdout, stderr) ==
    [kind |-> "exit", code |-> code, stdout |-> stdout, stderr |-> stderr]

\* handleInit(): [ret, file, gitignore]; code 0 stands for a handler that
\* returns without calling process.exit; stdout and stderr are the lines
\* console.log and console.error wrote, as strings
handleInit(fs, gi) ==
    IF lockFileExists(fs).ret.value
      THEN [ret |-> Exit(1, <<>>, <<StrError \o StrEnvLock \o StrAlreadyExists>>),
            file |-> fs, gitignore |-> gi]
    ELSE LET r == initializeLockFile(fs)
         IN  IF r.ret.kind = "throw"
               THEN [ret |-> Exit(1, <<>>, <<StrError \o Message(r.ret.error)>>),
                     file |-> r.file, gitignore |-> gi]
               ELSE [ret |-> Exit(0, <<StrInitialized \o StrEnvLock,
                                       StrAdded \o StrEnvFile \o StrAnd \o StrEnvLock
                                         \o StrToGitignore>>,
                                  <<>>),
                     file |-> r.file, gitignore |-> ensureGitignore(gi)]

\* the .gitignore the project starts with: none, or one that lists only .env
\* and has no final line break
GitignoreFiles == {Absent, FileOf(StrEnvFile)}

InitCli ==
    /\ file = Absent
    /\ gitignore \in GitignoreFiles
    /\ env \in Envs
    /\ op = [name |-> "start"]
    /\ ret = Ok(Undefined)
    /\ hist = [clean |-> TRUE, saved |-> <<>>]
    /\ cx = CxIdle

HandleInit ==
    LET r == handleInit(file, gitignore)
    IN  /\ file' = r.file
        /\ gitignore' = r.gitignore
        /\ ret' = r.ret
        /\ op' = [name |-> "handleInit"]
        /\ UNCHANGED <<env, hist, cx>>

NextCli ==
    Initialize \/ HandleInit \/ Save \/ LoadAll \/ ListNames \/ Exists \/ ForeignWrite

SpecCli == InitCli /\ [][NextCli]_vars

---------------------------------------------------------------------------
(* cli.ts: the init command on the .gitignore files a project can have,    *)
(* repeated after .env.lock was removed.                                   *)

StrCr == <<13>>

\* .gitignore at the start: none; empty; '.env' without a line break; both
\* names; '.env.lock' only; '.env' with a blank before it; '.env' with a
\* blank after it; both names with CR LF line ends; another pattern without
\* a line break; '.env' as the end of a longer pattern
InitGitignoreFiles ==
    {Absent,
     FileOf(<<>>),
     FileOf(StrEnvFile),
     FileOf(StrEnvFile \o NewLine \o StrEnvLock \o NewLine),
     FileOf(StrEnvLock \o NewLine),
     FileOf(<<32>> \o StrEnvFile \o NewLine),
     FileOf(StrEnvFile \o <<32>> \o NewLine),
     FileOf(StrEnvFile \o StrCr \o NewLine \o StrEnvLock \o StrCr \o NewLine),
     FileOf(<<120>>),
     FileOf(<<120>> \o StrEnvFile \o NewLine)}

InitInit ==
    /\ file = Absent
    /\ gitignore \in InitGitignoreFiles
    /\ env \in Envs
    /\ op = [name |-> "start"]
    /\ ret = Ok(Undefined)
    /\ hist = [clean |-> TRUE, saved |-> <<>>]
    /\ cx = CxIdle

\* .env.lock is removed
UnlinkLockFile ==
    /\ file # Absent
    /\ file' = Absent
    /\ op' = [name |-> "unlink"]
    /\ ret' = Ok(Undefined)
    /\ hist' = Dirty
    /\ UNCHANGED <<gitignore, env, cx>>

NextInit == HandleInit \/ UnlinkLockFile \/ ForeignWrite

SpecInit == InitInit /\ [][NextInit]_vars

---------------------------------------------------------------------------
(* cli.ts: the set and list commands.                                      *)

\* assignment.indexOf(c), counted from 1; 0 when c does not occur
IndexOf(s, c) ==
    IF \E i \in 1..Len(s) : s[i] = c
      THEN CHOOSE i \in 1..Len(s) : s[i] = c /\ \A j \in 1..(i - 1) : s[j] # c
      ELSE 0

\* handleSet printing the assignment it was given
handleSet_EchoAssignment(fs, e, args, iv) ==
    IF Len(args) = 0 \/ ~lockFileExists(fs).ret.value
      THEN [ret |-> Exit(1, <<>>, <<StrError \o StrUsage>>), file |-> fs]
    ELSE [ret |-> Exit(0, <<StrSet \o args[1]>>, <<>>), file |-> fs]

\* handleSet without the check that the store file exists
handleSet_NoExistsCheck(fs, e, args, iv) ==
    IF Len(args) = 0
      THEN [ret |-> Exit(1, <<>>, <<StrError \o StrUsage>>), file |-> fs]
    ELSE
      LET assignment == args[1]
          equalIndex == IndexOf(assignment, 61)
          key == Trim(SubSeq(assignment, 1, equalIndex - 1))
          value == Trim(SubSeq(assignment, equalIndex + 1, Len(assignment)))
      IN  IF equalIndex = 0
            THEN [ret |-> Exit(1, <<>>, <<StrError \o StrInvalidFormat>>), file |-> fs]
          ELSE IF key = <<>>
            THEN [ret |-> Exit(1, <<>>, <<StrError \o StrKeyEmpty>>), file |-> fs]
          ELSE LET r == saveSecret(fs, e, key, value, iv)
               IN  IF r.ret.kind = "throw"
                     THEN [ret |-> Exit(1, <<>>, <<StrError \o Message(r.ret.error)>>),
                           file |-> r.file]
                     ELSE [ret |-> Exit(0, <<StrSet \o key>>, <<>>), file |-> r.file]

\* handleSet keeping the white space around the name
handleSet_NoTrimName(fs, e, args, iv) ==
    IF Len(args) = 0
      THEN [ret |-> Exit(1, <<>>, <<StrError \o StrUsage>>), file |-> fs]
    ELSE
      LET assignment == args[1]
          equalIndex == IndexOf(assignment, 61)
          key == SubSeq(assignment, 1, equalIndex - 1)
          value == Trim(SubSeq(assignment, equalIndex + 1, Len(assignment)))
      IN  IF equalIndex = 0
            THEN [ret |-> Exit(1, <<>>, <<StrError \o StrInvalidFormat>>), file |-> fs]
          ELSE IF key = <<>>
            THEN [ret |-> Exit(1, <<>>, <<StrError \o StrKeyEmpty>>), file |-> fs]
          ELSE IF ~lockFileExists(fs).ret.value
            THEN [ret |-> Exit(1, <<>>, <<StrError \o StrEnvLock \o StrNotFound>>),
                  file |-> fs]
          ELSE LET r == saveSecret(fs, e, key, value, iv)
               IN  IF r.ret.kind = "throw"
                     THEN [ret |-> Exit(1, <<>>, <<StrError \o Message(r.ret.error)>>),
                           file |-> r.file]
                     ELSE [ret |-> Exit(0, <<StrSet \o key>>, <<>>), file |-> r.file]

\* handleSet(args): [ret, file], iv being the bytes randomBytes returns
handleSet(fs, e, args, iv) ==
    IF Len(args) = 0
      THEN [ret |-> Exit(1, <<>>, <<StrError \o StrUsage>>), file |-> fs]
    ELSE
      LET assignment == args[1]
          equalIndex == IndexOf(assignment, 61)
          key == Trim(SubSeq(assignment, 1, equalIndex - 1))
          value == Trim(SubSeq(assignment, equalIndex + 1, Len(assignment)))
      IN  IF equalIndex = 0
            THEN [ret |-> Exit(1, <<>>, <<StrError \o StrInvalidFormat>>), file |-> fs]
          ELSE IF key = <<>>
            THEN [ret |-> Exit(1, <<>>, <<StrError \o StrKeyEmpty>>), file |-> fs]
          ELSE IF ~lockFileExists(fs).ret.value
            THEN [ret |-> Exit(1, <<>>, <<StrError \o StrEnvLock \o StrNotFound>>),
                  file |-> fs]
          ELSE LET r == saveSecret(fs, e, key, value, iv)
               IN  IF r.ret.kind = "throw"
                     THEN [ret |-> Exit(1, <<>>, <<StrError \o Message(r.ret.error)>>),
                           file |-> r.file]
                     ELSE [ret |-> Exit(0, <<StrSet \o key>>, <<>>), file |-> r.file]

\* handleList(): [ret, file]
handleList(fs) ==
    IF ~lockFileExists(fs).ret.value
      THEN [ret |-> Exit(1, <<>>, <<StrError \o StrEnvLock \o StrNotFound>>),
            file |-> fs]
    ELSE LET r == listKeys(fs)
         IN  IF r.ret.kind = "throw"
               THEN [ret |-> Exit(1, <<>>, <<StrError \o Message(r.ret.error)>>),
                     file |-> r.file]
             ELSE IF Len(r.ret.value) = 0
               THEN [ret |-> Exit(0, <<StrNoSecrets>>, <<>>), file |-> r.file]
             ELSE [ret |-> Exit(0, <<StrStoredKeys>>
                                     \o [i \in 1..Len(r.ret.value) |->
                                            StrListItem \o r.ret.value[i]],
                                <<>>),
                   file |-> r.file]

\* the arguments of the set command: none; 'A' (no '='); '=e:' and ' =e:'
\* (no name); ' A = e: ' (blanks around the name and the value); 'a=' (no
\* value); '__proto__=e:'; 'A=p=q r' (a value with '=' and a blank); and
\* two arguments.  A is U+FF21, a is U+FF41, e is U+00E9.
SetArgs ==
    {<<>>,
     <<StrUpper>>,
     <<<<61, 233, 58>>>>,
     <<<<32, 61, 233, 58>>>>,
     <<<<32>> \o StrUpper \o <<32, 61, 32, 233, 58, 32>>>>,
     <<StrLower \o <<61>>>>,
     <<StrProto \o <<61, 233, 58>>>>,
     <<StrUpper \o <<61>> \o StrEqualsValue>>,
     <<StrEmoji \o <<61>>, <<120>>>>}

HandleSet ==
    \E args \in SetArgs, iv \in randomBytes(IV_LENGTH) :
        LET r == handleSet(file, env, args, iv)
        IN  /\ StoreSize(r.file) <= MaxEntries
            /\ file' = r.file
            /\ ret' = r.ret
            /\ op' = [name |-> "handleSet", args |-> args]
            /\ hist' = Dirty
            /\ UNCHANGED <<gitignore, env, cx>>

HandleList ==
    LET r == handleList(file)
    IN  /\ file' = r.file
        /\ ret' = r.ret
        /\ op' = [name |-> "handleList"]
        /\ UNCHANGED <<gitignore, env, hist, cx>>

\* the commands, and the store operations on a file that other programs and
\* the processes of other accounts write as well
NextCommands ==
    HandleInit \/ HandleSet \/ HandleList \/ LoadAll \/ ListNames \/ ForeignWrite
      \/ NewProcess

SpecCommands == InitCli /\ [][NextCommands]_vars

---------------------------------------------------------------------------
(* crypto.ts called directly: one value is encrypted under a derived key,  *)
(* and the Encrypted Value is then decrypted under a derived key.          *)

\* plaintexts: '', ':"', U+00E9, U+20AC followed by ', U+1F600, and the
\* JavaScript string that is the single code unit D83D (an unpaired surrogate)
CryptoValues ==
    {<<>>, <<58, 34>>, <<233>>, <<8364, 39>>, <<128512>>, <<55357>>}

\* project paths handed to deriveKey: absolute, and relative to cwd
CryptoPaths == {StrCwd, <<113>>}

CryptoKeys == {deriveKey(e, p) : e \in Envs, p \in CryptoPaths}

InitCrypto ==
    /\ file = Absent
    /\ gitignore = Absent
    /\ env \in Envs
    /\ op = [name |-> "start"]
    /\ ret = Ok(Undefined)
    /\ hist = Dirty
    /\ \E value \in CryptoValues, p \in CryptoPaths :
          cx = [pc |-> "start", value |-> value, key |-> deriveKey(env, p),
                enc |-> <<>>, dkey |-> <<>>, out |-> Ok(<<>>)]

Encrypt ==
    /\ cx.pc = "start"
    /\ \E iv \in randomBytes(IV_LENGTH) :
          cx' = [cx EXCEPT !.pc = "encrypted", !.enc = encrypt(cx.value, cx.key, iv)]
    /\ UNCHANGED <<file, gitignore, env, op, ret, hist>>

Decrypt ==
    /\ cx.pc = "encrypted"
    /\ \E key \in CryptoKeys :
          cx' = [cx EXCEPT !.pc = "decrypted", !.dkey = key,
                           !.out = decrypt(cx.enc, key)]
    /\ UNCHANGED <<file, gitignore, env, op, ret, hist>>

NextCrypto == Encrypt \/ Decrypt

SpecCrypto == InitCrypto /\ [][NextCrypto]_vars

---------------------------------------------------------------------------
(* crypto.ts on Encrypted Values that were altered after encrypt, and on   *)
(* two calls of encrypt with the same arguments.                           *)

\* [iv, tag, ciphertext] joined as encrypt joins them
JoinFields(parts) ==
    parts[1] \o <<ColonChar>> \o parts[2] \o <<ColonChar>> \o parts[3]

\* bit number bit of byte number pos flipped
FlipBit(bytes, pos, bit) == [bytes EXCEPT ![pos] = XorByte(@, 2 ^ bit)]

\* the Encrypted Value with one bit flipped in the bytes of field f
\* (2: the tag, 3: the ciphertext), in hex as before
FlipField(encryptedValue, f, pos, bit) ==
    LET parts == Split(encryptedValue, ColonChar)
    IN  JoinFields([parts EXCEPT ![f] = HexEncode(FlipBit(HexDecode(@), pos, bit))])

\* the bits that get flipped: the lowest, one in the middle, the highest
TamperBits == {0, 5, 7}

\* the values a single bit flip in the tag or in the ciphertext makes of an
\* Encrypted Value: in the first or the last byte of the field
TamperedValues(encryptedValue) ==
    LET parts == Split(encryptedValue, ColonChar)
        n(f) == Len(HexDecode(parts[f]))
    IN  UNION {{FlipField(encryptedValue, f, pos, bit) :
                   pos \in {1, n(f)} \cap (1..n(f)), bit \in TamperBits} : f \in {2, 3}}

\* values that are no Encrypted Value: two fields, four fields; an IV of 15
\* and of 17 bytes; a tag of 31 hex digits; a tag that starts with 'g'
MalformedValues(encryptedValue) ==
    LET parts == Split(encryptedValue, ColonChar)
    IN  {parts[1] \o <<ColonChar>> \o parts[2],
         encryptedValue \o <<ColonChar, 48, 48>>,
         JoinFields([parts EXCEPT ![1] = SubSeq(@, 1, 30)]),
         JoinFields([parts EXCEPT ![1] = @ \o <<48, 48>>]),
         JoinFields([parts EXCEPT ![2] = SubSeq(@, 1, 31)]),
         JoinFields([parts EXCEPT ![2] = <<103>> \o Tail(@)])}

\* encrypt(value, key) called a second time with the same arguments
EncryptAgain ==
    /\ cx.pc = "encrypted" /\ op.name = "start"
    /\ \E iv \in randomBytes(IV_LENGTH) :
          /\ cx' = [cx EXCEPT !.enc = encrypt(cx.value, cx.key, iv)]
          /\ op' = [name |-> "encrypt again", first |-> cx.enc, iv |-> iv]
    /\ UNCHANGED <<file, gitignore, env, ret, hist>>

\* one bit of the tag or of the ciphertext is flipped
Tamper ==
    /\ cx.pc = "encrypted" /\ op.name = "start"
    /\ \E t \in TamperedValues(cx.enc) : cx' = [cx EXCEPT !.enc = t]
    /\ op' = [name |-> "tamper", original |-> cx.enc]
    /\ UNCHANGED <<file, gitignore, env, ret, hist>>

\* the value is cut or padded
Malform ==
    /\ cx.pc = "encrypted" /\ op.name = "start"
    /\ \E m \in MalformedValues(cx.enc) : cx' = [cx EXCEPT !.enc = m]
    /\ op' = [name |-> "malform", original |-> cx.enc]
    /\ UNCHANGED <<file, gitignore, env, ret, hist>>

NextValue == Encrypt \/ EncryptAgain \/ Tamper \/ Malform \/ Decrypt

SpecValue == InitCrypto /\ [][NextValue]_vars

---------------------------------------------------------------------------
(* crypto.ts: deriveKey called twice, by processes whose environment and   *)
(* working directory change between the calls.                             *)

\* the environments of the calls: USER and USERNAME set or not, two working
\* directories ('/p' and '/q'); the account names are 'al', 'bo' and 'default'
KeyEnvs ==
    {[USER |-> u, USERNAME |-> n, cwd |-> c] :
        u \in {<<>>, <<97, 108>>},
        n \in {<<>>, <<97, 108>>, <<98, 111>>},
        c \in {StrCwd, <<47, 113>>}}

\* the projectPath arguments: '/p', '' and 'q'
KeyPaths == {StrCwd, <<>>, <<113>>}

InitKey ==
    /\ file = Absent
    /\ gitignore = Absent
    /\ env \in KeyEnvs
    /\ op = [name |-> "start"]
    /\ ret = Ok(Undefined)
    /\ hist = Dirty
    /\ cx = [pc |-> "keys", calls |-> <<>>]

\* deriveKey(projectPath), the first and the second call
DeriveKey ==
    /\ cx.pc = "keys" /\ Len(cx.calls) < 2
    /\ \E projectPath \in KeyPaths :
          cx' = [cx EXCEPT !.calls =
                    Append(@, [env |-> env, projectPath |-> projectPath,
                               store |-> file,
                               key |-> deriveKey(env, projectPath)])]
    /\ op' = [name |-> "deriveKey"]
    /\ UNCHANGED <<file, gitignore, env, ret, hist>>

\* process.env.USER or USERNAME is set or deleted, or the process changes
\* its working directory
ChangeEnv ==
    /\ cx.pc = "keys"
    /\ \E e \in KeyEnvs \ {env} : env' = e
    /\ op' = [name |-> "change env"]
    /\ UNCHANGED <<file, gitignore, ret, hist, cx>>

NextKey == DeriveKey \/ ChangeEnv \/ Initialize

SpecKey == InitKey /\ [][NextKey]_vars

---------------------------------------------------------------------------
(* loader.ts.  The variables of process.env other than USER and USERNAME   *)
(* are a function from the names that are set to their values.             *)

StrConstructor == <<99, 111, 110, 115, 116, 114, 117, 99, 116, 111, 114>>   \* 'constructor'

\* the properties process.env inherits from Object.prototype, as far as the
\* names used here go
ObjectPrototypeNames == {StrConstructor, StrProto}

Inherited == [t |-> "function"]

\* process.env[key]: the variable when it is set; the property of
\* Object.prototype when there is one of that name; undefined otherwise
EnvGet(processEnv, key) ==
    IF key \in DOMAIN processEnv THEN JsString(processEnv[key])
    ELSE IF key \in ObjectPrototypeNames THEN Inherited
    ELSE Undefined

\* process.env[key] = value
EnvSet(processEnv, key, value) ==
    [k \in DOMAIN processEnv \cup {key} |-> IF k = key THEN value ELSE processEnv[k]]

\* delete process.env[key]
EnvDelete(processEnv, key) == [k \in DOMAIN processEnv \ {key} |-> processEnv[k]]

RECURSIVE SetEntries_Overwrite(_, _, _)
\* the loop of loadEnv without the test for a variable that is set
SetEntries_Overwrite(entries, i, processEnv) ==
    IF i > Len(entries) THEN processEnv
    ELSE SetEntries_Overwrite(entries, i + 1,
             EnvSet(processEnv, entries[i].k, entries[i].v.s))

RECURSIVE SetEntries(_, _, _)
\* the for loop of loadEnv over Object.entries(secrets), from entry i on
SetEntries(entries, i, processEnv) ==
    IF i > Len(entries) THEN processEnv
    ELSE LET key == entries[i].k
             value == entries[i].v.s
         IN  SetEntries(entries, i + 1,
                 IF EnvGet(processEnv, key) = Undefined
                   THEN EnvSet(processEnv, key, value)
                   ELSE processEnv)

\* loadEnv setting the variables of the entries that decrypt before it
\* throws
loadEnv_SetDecrypted(fs, e, processEnv) ==
    LET secrets == loadSecrets(fs, e)
        parsed == IF fs = Absent THEN Throw(SyntaxError) ELSE JsonParse(fs.text)
        decrypted ==
            IF parsed.kind = "ok" /\ parsed.value.t = "object"
              THEN DecryptEntries_SkipFailed(ObjectEntries(parsed.value),
                                             DeriveKeyMemo[e], 1, JsObject(<<>>)).value
              ELSE JsObject(<<>>)
    IN  [ret |-> IF secrets.ret.kind = "throw" THEN secrets.ret ELSE Ok(Undefined),
         file |-> secrets.file,
         processEnv |-> SetEntries(ObjectEntries(decrypted), 1, processEnv)]

\* loadEnv(): [ret, file, processEnv]
loadEnv(fs, e, processEnv) ==
    LET secrets == loadSecrets(fs, e)
    IN  IF secrets.ret.kind = "throw"
          THEN [ret |-> secrets.ret, file |-> secrets.file, processEnv |-> processEnv]
          ELSE [ret |-> Ok(Undefined), file |-> secrets.file,
                processEnv |-> SetEntries(ObjectEntries(secrets.ret.value), 1,
                                          processEnv)]

\* the names of the secrets and variables: two that differ in letter case,
\* and 'constructor'
LoaderNames == {StrUpper, StrLower, StrConstructor}

\* the values the process gives its variables: '' and 'x'
EnvValues == {<<>>, <<120>>}

\* the stores process e has made with no, one or two calls of saveSecret,
\* and one with an entry of e followed by an entry of another account
LoaderStores(e) ==
    LET one == {saveSecret(Absent, e, n, v, iv).file :
                   n \in LoaderNames, v \in Values, iv \in randomBytes(IV_LENGTH)}
        two == {saveSecret(f, e, n, v, iv).file :
                   f \in one, n \in LoaderNames, v \in {<<233, 58>>},
                   iv \in randomBytes(IV_LENGTH)}
        iv0 == CHOOSE iv \in randomBytes(IV_LENGTH) : TRUE
        mixed == {saveSecret(saveSecret(Absent, e, StrUpper, <<233, 58>>, iv0).file,
                             other, StrLower, <<>>, iv0).file : other \in Envs \ {e}}
    IN  {Absent, initializeLockFile(Absent).file} \cup one \cup two \cup mixed

InitLoader ==
    /\ env \in Envs
    /\ file \in LoaderStores(env)
    /\ gitignore = Absent
    /\ op = [name |-> "start"]
    /\ ret = Ok(Undefined)
    /\ hist = Dirty
    /\ cx = [pc |-> "loader", processEnv |-> <<>>]

\* the program sets a variable before it calls loadEnv
SetEnv ==
    /\ cx.pc = "loader"
    /\ \E key \in LoaderNames, value \in EnvValues :
          cx' = [cx EXCEPT !.processEnv = EnvSet(@, key, value)]
    /\ op' = [name |-> "set env"]
    /\ ret' = Ok(Undefined)
    /\ UNCHANGED <<file, gitignore, env, hist>>

\* the program deletes a variable
DeleteEnv ==
    /\ cx.pc = "loader"
    /\ \E key \in DOMAIN cx.processEnv :
          cx' = [cx EXCEPT !.processEnv = EnvDelete(@, key)]
    /\ op' = [name |-> "delete env"]
    /\ ret' = Ok(Undefined)
    /\ UNCHANGED <<file, gitignore, env, hist>>

LoadEnv ==
    /\ cx.pc = "loader"
    /\ LET r == loadEnv(file, env, cx.processEnv)
       IN  /\ file' = r.file
           /\ ret' = r.ret
           /\ cx' = [cx EXCEPT !.processEnv = r.processEnv]
    /\ op' = [name |-> "loadEnv"]
    /\ UNCHANGED <<gitignore, env, hist>>

NextLoader == SetEnv \/ DeleteEnv \/ LoadEnv \/ ForeignWrite \/ NewProcess

SpecLoader == InitLoader /\ [][NextLoader]_vars

---------------------------------------------------------------------------
(* store.ts: saveSecret run by two processes of one account on the same    *)
(* store.  A call is two steps, since nothing locks the file between       *)
(* readFileSync and writeFileSync.                                         *)

\* saveSecret up to the assignment: the mapping it has read, the empty one
\* when there is no file or its text does not parse
saveSecretRead(fs) ==
    LET parsed == IF fs = Absent THEN Throw(SyntaxError) ELSE JsonParse(fs.text)
    IN  IF parsed.kind = "throw" THEN JsObject(<<>>) ELSE parsed.value

\* the rest of saveSecret, reading the file once more before it writes
saveSecretWrite_Reread(fs, encryptedStore, e, key, value, iv) ==
    LET set == SetProp(saveSecretRead(fs), key,
                       JsString(EncryptMemo[value, DeriveKeyMemo[e], iv]))
    IN  IF set.kind = "throw" THEN [ret |-> set, file |-> fs]
        ELSE [ret |-> Ok(Undefined), file |-> FileOf(JsonStringify(set.value))]

\* the rest of saveSecret: the assignment to the mapping it has read, and
\* writeFileSync
saveSecretWrite(fs, encryptedStore, e, key, value, iv) ==
    LET set == SetProp(encryptedStore, key,
                       JsString(EncryptMemo[value, DeriveKeyMemo[e], iv]))
    IN  IF set.kind = "throw" THEN [ret |-> set, file |-> fs]
        ELSE [ret |-> Ok(Undefined), file |-> FileOf(JsonStringify(set.value))]

Procs == {1, 2}

\* the store the two calls start on: none, an empty one, one with an entry
RaceStores(e) ==
    {Absent, initializeLockFile(Absent).file,
     saveSecret(Absent, e, StrUpper, <<>>, CHOOSE iv \in randomBytes(IV_LENGTH) : TRUE).file}

ProcIdle == [pc |-> "idle"]

InitRace ==
    /\ env \in Envs
    /\ file \in RaceStores(env)
    /\ gitignore = Absent
    /\ op = [name |-> "start"]
    /\ ret = Ok(Undefined)
    /\ hist = Dirty
    /\ cx = [pc |-> "race", initial |-> file, events |-> <<>>,
             procs |-> [p \in Procs |-> ProcIdle]]

\* process p enters saveSecret(key, value) and reads the store
SaveRead(p) ==
    /\ cx.pc = "race" /\ cx.procs[p].pc = "idle"
    /\ \E key \in Names, value \in Values, iv \in randomBytes(IV_LENGTH) :
          cx' = [cx EXCEPT !.procs[p] = [pc |-> "read", key |-> key, value |-> value,
                                         iv |-> iv,
                                         encryptedStore |-> saveSecretRead(file)],
                           !.events = Append(@, [e |-> "read", p |-> p])]
    /\ op' = [name |-> "save read", p |-> p]
    /\ UNCHANGED <<file, gitignore, env, ret, hist>>

\* process p sets its entry in the mapping it has read and writes the file
SaveWrite(p) ==
    /\ cx.pc = "race" /\ cx.procs[p].pc = "read"
    /\ LET me == cx.procs[p]
           r == saveSecretWrite(file, me.encryptedStore, env, me.key, me.value, me.iv)
       IN  /\ file' = r.file
           /\ ret' = r.ret
           /\ cx' = [cx EXCEPT !.procs[p].pc = "done",
                               !.events = Append(@, [e |-> "write", p |-> p])]
    /\ op' = [name |-> "save write", p |-> p]
    /\ UNCHANGED <<gitignore, env, hist>>

NextRace == \E p \in Procs : SaveRead(p) \/ SaveWrite(p)

SpecRace == InitRace /\ [][NextRace]_vars

---------------------------------------------------------------------------
(* The store file of one process read by another: after the calls of the   *)
(* process that made it, the file comes to a process of another account or *)
(* to another project directory.                                           *)

InitIsolation ==
    /\ file = Absent
    /\ gitignore = Absent
    /\ env \in AllEnvs
    /\ op = [name |-> "start"]
    /\ ret = Ok(Undefined)
    /\ hist = [clean |-> TRUE, saved |-> <<>>]
    /\ cx = CxIdle

\* saveSecret by the process that made the store
SaveOwn == hist.clean /\ Save

\* the file as it is comes to another process; hist keeps who wrote it
Relocate ==
    /\ \E e \in AllEnvs \ {env} : env' = e
    /\ hist' = [clean |-> FALSE, saved |-> hist.saved,
                writer |-> IF hist.clean THEN env ELSE hist.writer]
    /\ op' = [name |-> "relocate"]
    /\ ret' = Ok(Undefined)
    /\ UNCHANGED <<file, gitignore, cx>>

NextIsolation == Initialize \/ SaveOwn \/ Relocate \/ LoadAll \/ ListNames

SpecIsolation == InitIsolation /\ [][NextIsolation]_vars

---------------------------------------------------------------------------
(* store.ts: initializeLockFile in one process while saveSecret runs in    *)
(* another.  initializeLockFile is two steps as well: existsSync, and      *)
(* writeFileSync without an exclusive flag.                                *)

\* the process that calls saveSecret
Saver == CHOOSE p \in Procs : TRUE

InitInitRace ==
    /\ env \in Envs
    /\ file \in RaceStores(env)
    /\ gitignore = Absent
    /\ op = [name |-> "start"]
    /\ ret = Ok(Undefined)
    /\ hist = Dirty
    /\ cx = [pc |-> "race", initial |-> file, events |-> <<>>,
             procs |-> [p \in Procs |-> ProcIdle],
             init |-> [pc |-> "idle", ret |-> Ok(Undefined)]]

\* initializeLockFile() up to the test of existsSync: it throws when the file
\* is there
InitializeCheck ==
    /\ cx.pc = "race" /\ cx.init.pc = "idle"
    /\ cx' = [cx EXCEPT !.init = IF file # Absent
                                   THEN [pc |-> "done", ret |-> Throw(AlreadyExistsError)]
                                   ELSE [pc |-> "checked", ret |-> Ok(Undefined)],
                        !.events = Append(@, [e |-> "check", p |-> 0])]
    /\ op' = [name |-> "initialize check"]
    /\ ret' = IF file # Absent THEN Throw(AlreadyExistsError) ELSE ret
    /\ UNCHANGED <<file, gitignore, env, hist>>

\* the rest of initializeLockFile(): writeFileSync of the empty mapping
InitializeWrite ==
    /\ cx.pc = "race" /\ cx.init.pc = "checked"
    /\ file' = FileOf(JsonStringify(JsObject(<<>>)))
    /\ ret' = Ok(Undefined)
    /\ cx' = [cx EXCEPT !.init = [pc |-> "done", ret |-> Ok(Undefined)],
                        !.events = Append(@, [e |-> "init write", p |-> 0])]
    /\ op' = [name |-> "initialize write"]
    /\ UNCHANGED <<gitignore, env, hist>>

NextInitRace ==
    SaveRead(Saver) \/ SaveWrite(Saver) \/ InitializeCheck \/ InitializeWrite

SpecInitRace == InitInitRace /\ [][NextInitRace]_vars

---------------------------------------------------------------------------
(* Claims                                                                  *)

\* a string without unpaired surrogate code units
WellFormed(s) == \A i \in 1..Len(s) : ~(s[i] >= 55296 /\ s[i] <= 57343)

RoundTripDone == cx.pc = "decrypted" /\ cx.dkey = cx.key

\* C1 as stated: for every key k and every string s, decrypt(encrypt(s, k), k)
\* returns exactly s
C1_RoundTripEveryString == RoundTripDone => cx.out = Ok(cx.value)

\* C1 amended: for every key k and every well-formed string s (no unpaired
\* surrogate), decrypt(encrypt(s, k), k) returns exactly s; the empty string,
\* ':' and quote characters and multi-byte characters included
C1_RoundTrip == (RoundTripDone /\ WellFormed(cx.value)) => cx.out = Ok(cx.value)

\* C1 witness: a four-byte character encrypted and decrypted back
C1_Witness == RoundTripDone /\ cx.value = <<128512>> /\ cx.out = Ok(<<128512>>)

---------------------------------------------------------------------------
(* Claims about the store                                                  *)

\* the pairs <<name, value>> of an object whose values are strings
Pairs(obj) == {<<obj.props[i].k, obj.props[i].v.s>> : i \in 1..Len(obj.props)}
SavedPairs == {<<n, hist.saved[n]>> : n \in DOMAIN hist.saved}
Range(seq) == {seq[i] : i \in 1..Len(seq)}

\* the error kinds of the specification, by the messages the code throws
IsAlreadyExists(r) == r.kind = "throw" /\ r.error = AlreadyExistsError
IsCorruptStore(r) == r.kind = "throw" /\ r.error = InvalidJsonError
IsDecryptionFailure(r) == r.kind = "throw" /\ r.error.msg = "Failed to decrypt key"

Unparsable(fs) == fs # Absent /\ JsonParse(fs.text).kind = "throw"
\* the file holds a JSON object
HoldsMapping(fs) ==
    /\ fs # Absent
    /\ JsonParse(fs.text).kind = "ok"
    /\ JsonParse(fs.text).value.t = "object"
Entries(fs) == JsonParse(fs.text).value.props
StoredNames(fs) == {Entries(fs)[i].k : i \in 1..Len(Entries(fs))}

\* C2: from an absent store, after any sequence of initialize() and
\* save(name, value) calls of a single process, load_all() returns exactly
\* the mapping from each saved name to its most recently saved value and
\* list_names() returns exactly the set of saved names
C2_LoadAllReturnsSaved ==
    hist.clean =>
        /\ op.name = "load_all" => (ret.kind = "ok" /\ Pairs(ret.value) = SavedPairs)
        /\ op.name = "list_names" =>
              (ret.kind = "ok" /\ Range(ret.value) = DOMAIN hist.saved)

\* C3: save(n, v1) followed by save(n, v2) leaves the number of entries as it
\* was after the first call, and load_all() then maps n to v2
C3_SaveIdempotentByName ==
    [][(/\ hist.clean /\ op.name = "save" /\ ret.kind = "ok"
        /\ op'.name = "save" /\ op'.key = op.key /\ ret'.kind = "ok")
       => (/\ StoreSize(file') = StoreSize(file)
           /\ LET r == loadSecrets(file', env').ret
              IN  r.kind = "ok" /\ <<op'.key, op'.value>> \in Pairs(r.value))]_vars

\* C4: initialize() creates an empty store when no store file is present;
\* when one is present (empty, populated or unparsable) it fails with
\* AlreadyExists and leaves the content unchanged, and the CLI init command
\* then exits with code 1 without touching the store
C4_InitializeStrict ==
    [][/\ op'.name = "initialize" =>
            IF file = Absent
              THEN ret'.kind = "ok" /\ HoldsMapping(file') /\ Entries(file') = <<>>
              ELSE IsAlreadyExists(ret') /\ file' = file
       /\ (op'.name = "handleInit" /\ file # Absent) =>
            (ret'.code = 1 /\ file' = file)]_vars

\* C4 witness: initialize() has failed with AlreadyExists on an unparsable file
C4_Witness ==
    op.name = "initialize" /\ IsAlreadyExists(ret) /\ Unparsable(file)

\* entry i of the store does not decrypt under the key of the calling process
EntryFails(fs, e, i) ==
    \/ Entries(fs)[i].v.t # "string"
    \/ DecryptMemo[Entries(fs)[i].v.s, DeriveKeyMemo[e]].kind = "throw"

\* C5: load_all() is all-or-nothing: if any entry fails to decrypt, the call
\* fails with a DecryptionFailure naming an offending secret name and
\* returns no mapping, even when other entries decrypt
C5_LoadAllOrNothing ==
    (/\ op.name = "load_all" /\ HoldsMapping(file)
     /\ \E i \in 1..Len(Entries(file)) : EntryFails(file, env, i))
    => /\ IsDecryptionFailure(ret)
       /\ \E i \in 1..Len(Entries(file)) :
             EntryFails(file, env, i) /\ ret.error.key = Entries(file)[i].k

\* C5 witness: load_all() has failed although the first entry decrypts
C5_Witness ==
    /\ op.name = "load_all" /\ HoldsMapping(file) /\ IsDecryptionFailure(ret)
    /\ Len(Entries(file)) = 2
    /\ ~EntryFails(file, env, 1)

\* C6: when the store file is present and unparsable, load_all() and
\* list_names() fail with CorruptStore and leave the file unchanged
C6_CorruptStoreSurfaced ==
    [][(Unparsable(file) /\ op'.name \in {"load_all", "list_names"})
       => (IsCorruptStore(ret') /\ file' = file)]_vars

\* C6 witness: list_names() has failed with CorruptStore
C6_Witness == op.name = "list_names" /\ IsCorruptStore(ret) /\ Unparsable(file)

\* C7: on an unparsable store file save(X, y) succeeds and leaves exactly one
\* entry, X, whose value decrypts to y; load_all() and list_names() succeed
\* after it
C7_SaveRecoversCorruptStore ==
    [][(Unparsable(file) /\ op'.name = "save")
       => (/\ ret'.kind = "ok"
           /\ HoldsMapping(file')
           /\ StoredNames(file') = {op'.key} /\ Len(Entries(file')) = 1
           /\ loadSecrets(file', env').ret = 
                 Ok(JsObject(<<[k |-> op'.key, v |-> JsString(op'.value)]>>))
           /\ listKeys(file').ret = Ok(<<op'.key>>))]_vars

\* C8: on an absent store load_all() returns the empty mapping, list_names()
\* the empty list and exists() false, without error and without creating the
\* file; in every state the three leave the store file unchanged
C8_ReadsLeaveFile ==
    [][(op'.name \in {"load_all", "list_names", "exists"})
       => (/\ file' = file
           /\ file = Absent =>
                 /\ op'.name = "load_all" => ret' = Ok(JsObject(<<>>))
                 /\ op'.name = "list_names" => ret' = Ok(<<>>)
                 /\ op'.name = "exists" => ret' = Ok(FALSE))]_vars

\* C8 witness: load_all() has returned the empty mapping on an absent store
C8_Witness == op.name = "load_all" /\ file = Absent /\ ret = Ok(JsObject(<<>>))

\* list_names() has returned every stored name exactly once
ListsEveryNameOnce ==
    /\ Range(ret.value) = StoredNames(file)
    /\ Len(ret.value) = Cardinality(StoredNames(file))

\* C9 as stated: list_names() returns every stored name exactly once, sorted
\* by byte value (the bytes of the UTF-8 encoding)
C9_SortedByBytes ==
    (op.name = "list_names" /\ HoldsMapping(file))
    => /\ ret.kind = "ok" /\ ListsEveryNameOnce
       /\ \A i, j \in 1..Len(ret.value) :
             i < j => SeqLess(Utf8Encode(ret.value[i]), Utf8Encode(ret.value[j]), 1)

\* C9 amended: list_names() returns every stored name exactly once, sorted
\* by UTF-16 code unit, whatever the order in which the names were saved
C9_SortedByCodeUnits ==
    (op.name = "list_names" /\ HoldsMapping(file))
    => /\ ret.kind = "ok" /\ ListsEveryNameOnce
       /\ \A i, j \in 1..Len(ret.value) :
             i < j => SeqLess(Utf16Encode(ret.value[i]), Utf16Encode(ret.value[j]), 1)

\* C9 witness: two names saved in descending order are listed in ascending
\* order
C9_Witness ==
    /\ op.name = "list_names" /\ HoldsMapping(file) /\ hist.clean
    /\ ObjectKeys(JsonParse(file.text).value) = <<StrLower, StrUpper>>
    /\ ret = Ok(<<StrUpper, StrLower>>)

\* C10: list_names() decrypts nothing: on a store that holds a mapping it
\* succeeds and returns the names whatever the values are, also where
\* load_all() fails
C10_ListNamesNeverDecrypts ==
    (op.name = "list_names" /\ HoldsMapping(file))
    => (ret.kind = "ok" /\ Range(ret.value) = StoredNames(file))

\* C10 witness: list_names() has returned the names of a store on which
\* load_all() fails
C10_Witness ==
    /\ op.name = "list_names" /\ HoldsMapping(file) /\ ret.kind = "ok"
    /\ Len(ret.value) = 2
    /\ IsDecryptionFailure(loadSecrets(file, env).ret)

---------------------------------------------------------------------------
(* Claims about decrypt on values it was not given by encrypt              *)

\* the error kinds of decrypt, by the messages the code throws
IsAuthenticationFailure(r) ==
    /\ r.kind = "throw"
    /\ r.error.msg = "Unsupported state or unable to authenticate data"
IsMalformedValue(r) ==
    /\ r.kind = "throw"
    /\ r.error.msg \in {"Invalid encrypted value format", "Invalid IV or tag length"}

\* C11: for all strings s and keys k1 # k2, decrypt(encrypt(s, k1), k2) fails
\* with AuthenticationFailure and returns no string; the error is the one
\* decrypt gives for a tampered value under the right key
C11_WrongKeyRejected ==
    (cx.pc = "decrypted" /\ op.name = "start" /\ cx.dkey # cx.key)
    => /\ IsAuthenticationFailure(cx.out)
       /\ \A t \in TamperedValues(cx.enc) : decrypt(t, cx.key) = cx.out

\* C11 witness: a non-empty plaintext was encrypted, and decrypt under
\* another key has failed
C11_Witness ==
    /\ cx.pc = "decrypted" /\ op.name = "start" /\ cx.dkey # cx.key
    /\ cx.value = <<8364, 39>>
    /\ IsAuthenticationFailure(cx.out)

\* C12: with one bit flipped in the tag or in the ciphertext of an Encrypted
\* Value, decrypt under the key of encrypt fails with AuthenticationFailure
\* and returns no plaintext
C12_TamperDetected ==
    (cx.pc = "decrypted" /\ op.name = "tamper" /\ cx.dkey = cx.key)
    => IsAuthenticationFailure(cx.out)

\* C12 witness: decrypt has failed on a value whose ciphertext, not its tag,
\* was changed
C12_Witness ==
    /\ cx.pc = "decrypted" /\ op.name = "tamper" /\ cx.dkey = cx.key
    /\ Split(cx.enc, ColonChar)[2] = Split(op.original, ColonChar)[2]
    /\ Split(cx.enc, ColonChar)[3] # Split(op.original, ColonChar)[3]
    /\ IsAuthenticationFailure(cx.out)

\* the value has other than three fields, or its IV or tag field does not
\* decode to 16 bytes
NotThreeFieldsOf16(encryptedValue) ==
    LET parts == Split(encryptedValue, ColonChar)
    IN  \/ Len(parts) # 3
        \/ Len(HexDecode(parts[1])) # 16
        \/ Len(HexDecode(parts[2])) # 16

\* C13: decrypt fails with MalformedValue, under every key, whenever the
\* value does not split into exactly three colon-delimited fields or its IV
\* field or tag field does not decode to exactly 16 bytes
C13_MalformedRejected ==
    (cx.pc = "decrypted" /\ NotThreeFieldsOf16(cx.enc)) => IsMalformedValue(cx.out)

\* C13 witness: decrypt under the key of encrypt has failed on a value with
\* three fields whose tag field has 31 hex digits
C13_Witness ==
    /\ cx.pc = "decrypted" /\ op.name = "malform" /\ cx.dkey = cx.key
    /\ Len(Split(cx.enc, ColonChar)) = 3
    /\ Len(Split(cx.enc, ColonChar)[2]) = 31
    /\ IsMalformedValue(cx.out)

\* the IV field of an Encrypted Value, decoded
IvOf(encryptedValue) == HexDecode(Split(encryptedValue, ColonChar)[1])

---------------------------------------------------------------------------
(* Claims about deriveKey                                                  *)

\* the account name and the canonical path of a call of deriveKey
AccountOf(call) == Username(call.env)
CanonicalPathOf(call) == PathResolve(call.env.cwd, call.projectPath)

\* C15: deriveKey is a function of the account name and the canonical
\* project path only: two calls with the same account name and the same
\* canonical path return the same 32 bytes, whatever the store holds,
\* whichever variable the name comes from and whatever was called before
C15_KeyDeterministic ==
    cx.pc = "keys" =>
        \A i, j \in 1..Len(cx.calls) :
            /\ Len(cx.calls[i].key) = 32
            /\ (/\ AccountOf(cx.calls[i]) = AccountOf(cx.calls[j])
                /\ CanonicalPathOf(cx.calls[i]) = CanonicalPathOf(cx.calls[j]))
               => cx.calls[i].key = cx.calls[j].key

\* C15 witness: the same key from two calls that differ in the store, in the
\* working directory, in the path argument and in the variable that holds
\* the account name
C15_Witness ==
    /\ cx.pc = "keys" /\ Len(cx.calls) = 2
    /\ cx.calls[1].store # cx.calls[2].store
    /\ cx.calls[1].env.cwd # cx.calls[2].env.cwd
    /\ cx.calls[1].env.USER # cx.calls[2].env.USER
    /\ cx.calls[1].projectPath # cx.calls[2].projectPath
    /\ cx.calls[1].key = cx.calls[2].key

\* C16 as stated: deriveKey(p1) # deriveKey(p2) for p1 # p2 under the same
\* account name
C16_KeysDifferByArgument ==
    (cx.pc = "keys" /\ Len(cx.calls) = 2
     /\ cx.calls[1].env = cx.calls[2].env
     /\ cx.calls[1].projectPath # cx.calls[2].projectPath)
    => cx.calls[1].key # cx.calls[2].key

\* C16 amended: under the same account name, two calls whose canonical
\* (resolved) paths differ return different keys
C16_KeysDifferByCanonicalPath ==
    (cx.pc = "keys" /\ Len(cx.calls) = 2
     /\ AccountOf(cx.calls[1]) = AccountOf(cx.calls[2])
     /\ CanonicalPathOf(cx.calls[1]) # CanonicalPathOf(cx.calls[2]))
    => cx.calls[1].key # cx.calls[2].key

\* C16 witness: one process, one path argument ('q'), two working
\* directories, two keys
C16_Witness ==
    /\ cx.pc = "keys" /\ Len(cx.calls) = 2
    /\ AccountOf(cx.calls[1]) = AccountOf(cx.calls[2])
    /\ cx.calls[1].projectPath = <<113>> /\ cx.calls[2].projectPath = <<113>>
    /\ cx.calls[1].key # cx.calls[2].key

---------------------------------------------------------------------------
(* Claims about loadEnv                                                    *)

\* what load_all() returns on the store, as pairs <<name, value>>
LoadedPairs(fs, e) == Pairs(loadSecrets(fs, e).ret.value)

\* C17: loadEnv never overwrites a variable that was set before the call,
\* whatever its value, and sets every stored name that was not set before
\* the call to its decrypted value
C17_LoadEnvSetsUnsetOnly ==
    [][(op'.name = "loadEnv" /\ cx.pc = "loader")
       => LET before == cx.processEnv
              after == cx'.processEnv
          IN  /\ \A n \in DOMAIN before : n \in DOMAIN after /\ after[n] = before[n]
              /\ loadSecrets(file, env).ret.kind = "ok" =>
                    \A nv \in LoadedPairs(file, env) :
                        nv[1] \notin DOMAIN before =>
                            (nv[1] \in DOMAIN after /\ after[nv[1]] = nv[2])]_vars

\* C17 for the names that are no property of Object.prototype
C17_LoadEnvSetsUnsetOrdinaryNames ==
    [][(op'.name = "loadEnv" /\ cx.pc = "loader")
       => LET before == cx.processEnv
              after == cx'.processEnv
          IN  /\ \A n \in DOMAIN before : n \in DOMAIN after /\ after[n] = before[n]
              /\ loadSecrets(file, env).ret.kind = "ok" =>
                    \A nv \in LoadedPairs(file, env) :
                        (nv[1] \notin DOMAIN before /\ nv[1] \notin ObjectPrototypeNames)
                        => (nv[1] \in DOMAIN after /\ after[nv[1]] = nv[2])]_vars

---------------------------------------------------------------------------
(* Claims about concurrent calls                                           *)

\* both calls of saveSecret have returned
BothSaved == cx.pc = "race" /\ \A p \in Procs : cx.procs[p].pc = "done"

\* the two calls overlapped: each had read the store before the other wrote
Overlapped ==
    /\ cx.events[1].e = "read" /\ cx.events[2].e = "read"

\* the process that wrote last, and the other one
LastWriter == cx.events[4].p
FirstWriter == cx.events[3].p

\* the names the store held before the two calls
InitialNames == IF cx.initial = Absent THEN {} ELSE StoredNames(cx.initial)

\* C18: saveSecret reads, modifies and writes the whole mapping without a
\* lock: when two calls with different names overlap, the file ends as the
\* mapping the last writer had read plus its own entry, so the name of the
\* first writer is not in the store (its update is lost); when they do not
\* overlap, both names are in the store
C18_LastWriteWins ==
    (/\ BothSaved
     /\ cx.procs[1].key # cx.procs[2].key
     /\ StrProto \notin {cx.procs[1].key, cx.procs[2].key})
    => IF Overlapped
         THEN /\ StoredNames(file) = InitialNames \cup {cx.procs[LastWriter].key}
              /\ cx.procs[FirstWriter].key \notin InitialNames
                    => cx.procs[FirstWriter].key \notin StoredNames(file)
         ELSE StoredNames(file)
                 = InitialNames \cup {cx.procs[1].key, cx.procs[2].key}

\* C18 witness: two calls with different names have both returned, on a
\* store that held neither name, and the store holds one of the two only
C18_Witness ==
    /\ BothSaved /\ Overlapped
    /\ cx.procs[1].key = StrLower /\ cx.procs[2].key = StrEmoji
    /\ cx.initial # Absent /\ InitialNames = {StrUpper}
    /\ LastWriter = 1
    /\ StoredNames(file) = {StrUpper, StrLower}

---------------------------------------------------------------------------
(* Claims about the store read by another account or project               *)

\* the (account name, project path) pair of a process
PairOf(e) == <<Username(e), PathResolve(e.cwd, getProjectPath(e))>>

\* load_all() has run on a file that saveSecret calls of a process of
\* another pair wrote
ReadElsewhere ==
    /\ op.name = "load_all" /\ ~hist.clean
    /\ DOMAIN hist.saved # {}
    /\ PairOf(env) # PairOf(hist.writer)

\* C19: a store file written by save under one (account name, project path)
\* pair cannot be read under another pair: load_all() fails and returns no
\* plaintext value
C19_UnreadableElsewhere == ReadElsewhere => ret.kind = "throw"

\* C19 for a store that holds an entry: load_all() under another pair fails
\* with DecryptionFailure; under the same pair, whichever variable holds the
\* account name, it returns the values
C19_EntriesUnreadableElsewhere ==
    (op.name = "load_all" /\ ~hist.clean /\ HoldsMapping(file)
     /\ Entries(file) # <<>>)
    => IF PairOf(env) # PairOf(hist.writer)
         THEN IsDecryptionFailure(ret)
         ELSE ret.kind = "ok" /\ Pairs(ret.value) \subseteq SavedPairs

\* a store with two entries, read in another project directory
C19_EntriesWitness ==
    /\ ReadElsewhere /\ Len(Entries(file)) = 2
    /\ Username(env) = Username(hist.writer) /\ env.cwd # hist.writer.cwd
    /\ IsDecryptionFailure(ret)

---------------------------------------------------------------------------
(* Claims about the text of output and errors                              *)

\* v occurs in text
IsSubstring(v, text) ==
    \E i \in 1..Len(text) :
        i + Len(v) <= Len(text) + 1 /\ SubSeq(text, i, i + Len(v) - 1) = v

\* the strings an operation has printed (a command) or thrown (a store
\* operation)
TextOf(r) ==
    IF r.kind = "exit" THEN Range(r.stdout) \cup Range(r.stderr)
    ELSE IF r.kind = "throw" THEN {Message(r.error)}
    ELSE {}

\* the plaintexts a set command or a save can have been given
SecretValues == AllValues \ {<<>>}

\* C20: after every sequence of init, set and list commands, and for every
\* failing store operation, no line printed and no message thrown contains a
\* value that was passed to save; a secret name is all of a secret that
\* occurs in them
C20_NoValueInText ==
    \A v \in SecretValues : \A text \in TextOf(ret) : ~IsSubstring(v, text)

\* C20 witness: the set command has stored the value 'p=q r' and printed the
\* name, and load_all() returns the value
C20_Witness ==
    /\ op.name = "handleSet"
    /\ op.args = <<StrUpper \o <<61>> \o StrEqualsValue>>
    /\ ret.code = 0
    /\ ret.stdout = <<StrSet \o StrUpper>>
    /\ <<StrUpper, StrEqualsValue>> \in LoadedPairs(file, env)

---------------------------------------------------------------------------
(* Claims about what the store file holds                                  *)

\* s is made of the digits buf.toString('hex') writes
IsHex(s) ==
    \A i \in 1..Len(s) : (s[i] >= 48 /\ s[i] <= 57) \/ (s[i] >= 97 /\ s[i] <= 102)

\* s has the form of an Encrypted Value: three hex fields between ':', a
\* 16-byte IV, a 16-byte tag and whole bytes of ciphertext
IsEncryptedValue(s) ==
    LET parts == Split(s, ColonChar)
    IN  /\ Len(parts) = 3
        /\ \A i \in 1..3 : IsHex(parts[i])
        /\ Len(parts[1]) = 2 * IV_LENGTH
        /\ Len(parts[2]) = 2 * TAG_LENGTH
        /\ Len(parts[3]) % 2 = 0

\* C21: in every state reached from an absent store by initialize() and
\* save() calls, the store file is absent or holds a mapping, and every value
\* of the mapping is a string of the form of an Encrypted Value that is not
\* the plaintext given to save for its name
C21_StoreHoldsEncryptedValues ==
    (hist.clean /\ file # Absent)
    => /\ HoldsMapping(file)
       /\ \A i \in 1..Len(Entries(file)) :
             /\ Entries(file)[i].v.t = "string"
             /\ IsEncryptedValue(Entries(file)[i].v.s)
             /\ Entries(file)[i].k \in DOMAIN hist.saved
             /\ Entries(file)[i].v.s # hist.saved[Entries(file)[i].k]

\* C21 witness: two saves have left two entries, one of a non-empty value
C21_Witness ==
    /\ hist.clean /\ op.name = "save" /\ HoldsMapping(file)
    /\ Len(Entries(file)) = 2
    /\ \E n \in DOMAIN hist.saved : hist.saved[n] = <<233, 58>>

\* save(n, v) has left an entry under n that load_all() maps to v and
\* list_names() lists
SavedVerbatim(fs, e, n, v) ==
    /\ HoldsMapping(fs)
    /\ n \in StoredNames(fs)
    /\ loadSecrets(fs, e).ret.kind = "ok"
    /\ <<n, v>> \in Pairs(loadSecrets(fs, e).ret.value)
    /\ listKeys(fs).ret.kind = "ok"
    /\ n \in Range(listKeys(fs).ret.value)

\* C22: for every name n, after save(n, v) the store has an entry under
\* exactly n, load_all() maps n to v and list_names() lists n; names that
\* differ only in letter case are two entries
C22_NamesVerbatim ==
    [][(hist.clean /\ op'.name = "save" /\ ret'.kind = "ok")
       => SavedVerbatim(file', env', op'.key, op'.value)]_vars

\* C22 for the names other than '__proto__'
C22_OrdinaryNamesVerbatim ==
    [][(hist.clean /\ op'.name = "save" /\ ret'.kind = "ok" /\ op'.key # StrProto)
       => SavedVerbatim(file', env', op'.key, op'.value)]_vars

\* two names that differ only in letter case, saved with different values
\* and both loaded back
C22_CaseWitness ==
    /\ hist.clean /\ op.name = "save" /\ HoldsMapping(file)
    /\ StoredNames(file) = {StrUpper, StrLower}
    /\ LET r == loadSecrets(file, env).ret
       IN  /\ r.kind = "ok"
           /\ \E v, w \in Values :
                 v # w /\ Pairs(r.value) = {<<StrUpper, v>>, <<StrLower, w>>}

\* the entries a parser finds in the store file: none when the file is
\* absent, does not parse or holds null
EntriesOf(fs) ==
    IF fs = Absent THEN <<>>
    ELSE LET parsed == JsonParse(fs.text)
         IN  IF parsed.kind = "throw" \/ parsed.value.t = "null" THEN <<>>
             ELSE ObjectEntries(parsed.value)

NamesOf(fs) == LET es == EntriesOf(fs) IN {es[i].k : i \in 1..Len(es)}

\* C23: save(n, v) on a parsable store changes only the entry for n: every
\* other entry is in the file afterwards with the same stored string; and
\* across save and initialize calls no stored name is removed, so a store
\* with an entry never becomes empty or absent
C23_SaveKeepsOtherEntries ==
    [][(op'.name \in {"save", "initialize"})
       => LET before == EntriesOf(file)
              after == EntriesOf(file')
          IN  /\ \A i \in 1..Len(before) :
                    (op'.name = "save" /\ before[i].k = op'.key)
                    \/ before[i] \in Range(after)
              /\ \A i \in 1..Len(before) :
                    \E j \in 1..Len(after) : after[j].k = before[i].k
              /\ Len(before) > 0 => (file' # Absent /\ Len(after) > 0)]_vars

\* C23 witness: a save of another name has kept an entry whose value is no
\* Encrypted Value as it was
C23_Witness ==
    /\ op.name = "save" /\ op.key = StrLower /\ ret.kind = "ok"
    /\ HoldsMapping(file)
    /\ Len(Entries(file)) = 2
    /\ Entries(file)[1] = [k |-> StrUpper, v |-> JsString(<<120, 45, 121>>)]

---------------------------------------------------------------------------
(* Claims about the commands                                               *)

\* what set and list print when there is no store file
NotFoundLine == StrError \o StrEnvLock \o StrNotFound

\* the argument of the set command has a '=' and a name before it
IsAssignment(args) ==
    /\ Len(args) > 0
    /\ IndexOf(args[1], 61) > 0
    /\ Trim(SubSeq(args[1], 1, IndexOf(args[1], 61) - 1)) # <<>>

\* a command has created the store file
CreatedByCommand ==
    /\ file = Absent /\ file' # Absent
    /\ op'.name \in {"handleInit", "handleSet", "handleList"}

\* C24 as stated: when the store file is absent, handleSet and handleList
\* report a 'not found' error, exit with code 1 and do not create the file;
\* a command creates the store file only as a successful init
C24_NotFoundWithoutStore ==
    [][/\ (file = Absent /\ op'.name \in {"handleSet", "handleList"})
            => (ret'.code = 1 /\ ret'.stderr = <<NotFoundLine>> /\ file' = Absent)
       /\ CreatedByCommand => (op'.name = "handleInit" /\ ret'.code = 0)]_vars

\* C24 amended: when the store file is absent, handleSet and handleList exit
\* with code 1, print nothing to standard output and do not create the file;
\* the error is 'not found' for handleList and for handleSet given NAME=value
\* with a name, and the error of the argument otherwise; a command creates
\* the store file only as a successful init
C24_CommandsNeedStore ==
    [][/\ (file = Absent /\ op'.name \in {"handleSet", "handleList"})
            => /\ ret'.code = 1 /\ ret'.stdout = <<>> /\ file' = Absent
               /\ IF op'.name = "handleList" \/ IsAssignment(op'.args)
                    THEN ret'.stderr = <<NotFoundLine>>
                    ELSE ret'.stderr \in {<<StrError \o StrUsage>>,
                                          <<StrError \o StrInvalidFormat>>,
                                          <<StrError \o StrKeyEmpty>>}
       /\ CreatedByCommand => (op'.name = "handleInit" /\ ret'.code = 0)]_vars

\* C24 witness: the set command given NAME=value has reported 'not found' on
\* an absent store
C24_Witness ==
    /\ op.name = "handleSet" /\ IsAssignment(op.args)
    /\ file = Absent /\ ret.code = 1 /\ ret.stderr = <<NotFoundLine>>

\* the text of the argument before and after its first '='
BeforeEquals(args) == SubSeq(args[1], 1, IndexOf(args[1], 61) - 1)
AfterEquals(args) == SubSeq(args[1], IndexOf(args[1], 61) + 1, Len(args[1]))
HasEquals(args) == Len(args) > 0 /\ IndexOf(args[1], 61) > 0

\* the store has an entry under n that decrypts to v for process e
StoredAs(fs, e, n, v) ==
    /\ HoldsMapping(fs)
    /\ \E i \in 1..Len(Entries(fs)) :
          /\ Entries(fs)[i].k = n
          /\ Entries(fs)[i].v.t = "string"
          /\ DecryptMemo[Entries(fs)[i].v.s, DeriveKeyMemo[e]] = Ok(v)

\* C25 as stated: handleSet takes the text before the first '=' as the name
\* and all the text after it as the value, which is stored and loaded back
\* unchanged; an argument without '=' or with an empty name exits with code 1
\* and leaves the store unchanged
C25_SplitsVerbatim ==
    [][(op'.name = "handleSet") =>
          IF HasEquals(op'.args) /\ BeforeEquals(op'.args) # <<>>
            THEN HoldsMapping(file) =>
                    StoredAs(file', env', BeforeEquals(op'.args), AfterEquals(op'.args))
            ELSE ret'.code = 1 /\ file' = file]_vars

\* C25 amended: handleSet splits its argument at the first '=' only and
\* removes the white space at both ends of each part: on a present store it
\* does what save(name, value) does with the trimmed text before the '=' as
\* name and the trimmed text after it as value, exits with code 0 when the
\* save succeeds, and the entry stored under the name decrypts to exactly
\* that value; an argument without '=' or with a name that is empty after
\* trimming exits with code 1 and leaves the store unchanged
C25_SplitsAndTrims ==
    [][(op'.name = "handleSet") =>
          IF HasEquals(op'.args) /\ Trim(BeforeEquals(op'.args)) # <<>>
            THEN file # Absent =>
                   LET n == Trim(BeforeEquals(op'.args))
                       v == Trim(AfterEquals(op'.args))
                   IN  /\ \E iv \in randomBytes(IV_LENGTH) :
                             LET s == saveSecret(file, env, n, v, iv)
                             IN  /\ file' = s.file
                                 /\ ret'.code = 0 <=> s.ret.kind = "ok"
                       /\ (ret'.code = 0 /\ n \in NamesOf(file'))
                             => StoredAs(file', env', n, v)
            ELSE ret'.code = 1 /\ file' = file]_vars

\* C25 witness: the argument ' A = e: ' has stored the value 'e:' under the
\* name A
C25_Witness ==
    /\ op.name = "handleSet"
    /\ op.args = <<<<32>> \o StrUpper \o <<32, 61, 32, 233, 58, 32>>>>
    /\ ret.code = 0
    /\ StoredAs(file, env, StrUpper, <<233, 58>>)

---------------------------------------------------------------------------
(* Claims about .gitignore                                                 *)

\* the lines of a text, ended by LF or by CR LF
LinesOf(text) ==
    LET split == Split(text, 10)
    IN  [i \in 1..Len(split) |->
            IF split[i] # <<>> /\ split[i][Len(split[i])] = 13
              THEN SubSeq(split[i], 1, Len(split[i]) - 1)
              ELSE split[i]]

ContentOf(gi) == IF gi = Absent THEN <<>> ELSE gi.text
HasLine(gi, x) == Includes(LinesOf(ContentOf(gi)), x)
\* x is a line of the file when the white space around each line is dropped
HasTrimmedLine(gi, x) ==
    \E i \in 1..Len(Split(ContentOf(gi), 10)) : Trim(Split(ContentOf(gi), 10)[i]) = x

IsPrefix(a, b) == Len(a) <= Len(b) /\ SubSeq(b, 1, Len(a)) = a

\* the content with a line break added when it is not empty and has none at
\* its end
Terminated(text) ==
    IF text # <<>> /\ text[Len(text)] # 10 THEN text \o NewLine ELSE text

InitSucceeded == op'.name = "handleInit" /\ ret'.code = 0

\* C26: after a successful init command the ignore file has a line '.env'
\* and a line '.env.lock'; the previous content is a prefix of the new one,
\* only the names that were not a line before are added, and a file that has
\* both lines is left as it is
C26_GitignoreListsBoth ==
    [][InitSucceeded
       => /\ HasLine(gitignore', StrEnvFile) /\ HasLine(gitignore', StrEnvLock)
          /\ IsPrefix(ContentOf(gitignore), ContentOf(gitignore'))
          /\ IF HasLine(gitignore, StrEnvFile) /\ HasLine(gitignore, StrEnvLock)
               THEN gitignore' = gitignore
               ELSE ContentOf(gitignore') =
                      Terminated(ContentOf(gitignore))
                        \o (IF HasLine(gitignore, StrEnvFile) THEN <<>>
                            ELSE StrEnvFile \o NewLine)
                        \o (IF HasLine(gitignore, StrEnvLock) THEN <<>>
                            ELSE StrEnvLock \o NewLine)]_vars

\* C26 with a line taken as listed also when it has white space around the
\* name
C26_GitignoreListsBothTrimmed ==
    [][InitSucceeded
       => /\ HasTrimmedLine(gitignore', StrEnvFile)
          /\ HasTrimmedLine(gitignore', StrEnvLock)
          /\ IsPrefix(ContentOf(gitignore), ContentOf(gitignore'))
          /\ IF HasTrimmedLine(gitignore, StrEnvFile)
                  /\ HasTrimmedLine(gitignore, StrEnvLock)
               THEN gitignore' = gitignore
               ELSE ContentOf(gitignore') =
                      Terminated(ContentOf(gitignore))
                        \o (IF HasTrimmedLine(gitignore, StrEnvFile) THEN <<>>
                            ELSE StrEnvFile \o NewLine)
                        \o (IF HasTrimmedLine(gitignore, StrEnvLock) THEN <<>>
                            ELSE StrEnvLock \o NewLine)]_vars

\* a second successful init has left a .gitignore that lacked a line break
\* and '.env.lock' with both lines
C26_TrimmedWitness ==
    /\ op.name = "handleInit" /\ ret.code = 0 /\ ~hist.clean
    /\ gitignore = FileOf(StrEnvFile \o NewLine \o StrEnvLock \o NewLine)

---------------------------------------------------------------------------
(* Claims about initialize() beside save()                                 *)

\* initialize() has returned without error and save() has returned
InitializedAndSaved ==
    /\ cx.pc = "race" /\ "init" \in DOMAIN cx
    /\ cx.init.pc = "done" /\ cx.init.ret.kind = "ok"
    /\ cx.procs[Saver].pc = "done"

\* the place of a step among the steps taken
EventAt(e) == CHOOSE i \in 1..Len(cx.events) : cx.events[i].e = e

\* C27: in every interleaving of initialize() in one process with save() in
\* another, when initialize() has succeeded the entry of the completed save
\* is in the store
C27_InitializeKeepsSavedEntry ==
    (InitializedAndSaved /\ cx.procs[Saver].key # StrProto)
    => (HoldsMapping(file) /\ cx.procs[Saver].key \in StoredNames(file))

\* the entry of the save is lost exactly when save wrote the file between
\* the existsSync and the writeFileSync of initialize()
C27_LostWhenWrittenAfterCheck ==
    (InitializedAndSaved /\ cx.procs[Saver].key # StrProto)
    => /\ HoldsMapping(file)
       /\ cx.procs[Saver].key \notin StoredNames(file)
            <=> (EventAt("check") < EventAt("write")
                   /\ EventAt("write") < EventAt("init write"))

\* initialize() has succeeded after a save completed, and the store is empty
C27_LostWitness ==
    /\ InitializedAndSaved /\ cx.procs[Saver].key = StrUpper
    /\ op.name = "initialize write"
    /\ HoldsMapping(file) /\ Entries(file) = <<>>

---------------------------------------------------------------------------
(* Claims about content that parses and is no mapping                      *)

\* the file holds a JSON text that is no object
IsNonMapping(fs) ==
    /\ fs # Absent
    /\ JsonParse(fs.text).kind = "ok"
    /\ JsonParse(fs.text).value.t # "object"

IsTypeError(r) == r.kind = "throw" /\ r.error.type = "TypeError"

\* C28: content that parses and is no mapping (null, an array, a string, a
\* number) is handled like unparsable content: load_all() and list_names()
\* fail with CorruptStore, and save(n, v) succeeds and leaves a store from
\* which load_all() returns exactly {n: v}
C28_NonMappingLikeUnparsable ==
    [][IsNonMapping(file)
       => /\ op'.name \in {"load_all", "list_names"} => IsCorruptStore(ret')
          /\ (op'.name = "save" /\ op'.key # StrProto)
                => /\ ret'.kind = "ok"
                   /\ loadSecrets(file', env').ret
                        = Ok(JsObject(<<[k |-> op'.key, v |-> JsString(op'.value)]>>))]_vars

\* what the operations do on such content: none of them changes the file or
\* fails with CorruptStore.  On null all three throw a TypeError; on a
\* string or a number save throws a TypeError; on an array save returns
\* without error and the file is as before; load_all() and list_names() take
\* the items of an array and the characters of a string as the entries.
C28_NonMappingLeftAsItIs ==
    [][IsNonMapping(file)
       => LET v == JsonParse(file.text).value
          IN  /\ file' = file
              /\ ~IsCorruptStore(ret')
              /\ v.t = "null" => IsTypeError(ret')
              /\ op'.name = "save" =>
                    IF v.t = "array" THEN ret' = Ok(Undefined) ELSE IsTypeError(ret')
              /\ (op'.name = "list_names" /\ v.t # "null")
                    => ret' = Ok(ObjectKeys(v))
              /\ (op'.name = "load_all" /\ v.t # "null")
                    => IF ObjectEntries(v) = <<>> THEN ret' = Ok(JsObject(<<>>))
                       ELSE IsDecryptionFailure(ret')]_vars

\* save has returned without error on the content [] and load_all() returns
\* the empty mapping
C28_ArrayWitness ==
    /\ op.name = "save" /\ op.key = StrUpper /\ ret = Ok(Undefined)
    /\ file = FileOf(<<Tok("["), Tok("]")>>)
    /\ loadSecrets(file, env).ret = Ok(JsObject(<<>>))

---------------------------------------------------------------------------
(* Claims about loadEnv when load_all() fails                              *)

\* C29: when load_all() fails, for a store that does not parse or an entry
\* that does not decrypt, loadEnv throws the same error and the process
\* environment and the store file are as they were before the call
C29_LoadEnvAllOrNothing ==
    [][(op'.name = "loadEnv" /\ cx.pc = "loader"
          /\ loadSecrets(file, env).ret.kind = "throw")
       => /\ ret' = loadSecrets(file, env).ret
          /\ cx'.processEnv = cx.processEnv
          /\ file' = file]_vars

\* C29 witness: loadEnv has failed on the second entry of a store whose
\* first entry decrypts, and the variable of the first entry is not set
C29_Witness ==
    /\ op.name = "loadEnv" /\ cx.pc = "loader"
    /\ IsDecryptionFailure(ret) /\ ret.error.key = StrLower
    /\ HoldsMapping(file) /\ Len(Entries(file)) = 2
    /\ ~EntryFails(file, env, 1)
    /\ Entries(file)[1].k = StrUpper
    /\ StrUpper \notin DOMAIN cx.processEnv

---------------------------------------------------------------------------
(* Claims about the account name deriveKey uses                            *)

\* the account name by the rule of the claim: USER when it is set and not
\* empty, otherwise USERNAME when it is set and not empty, otherwise
\* 'default' (a variable that is not set is the empty string in the model)
FallbackAccount(e) ==
    CASE e.USER # <<>> -> e.USER
      [] e.USER = <<>> /\ e.USERNAME # <<>> -> e.USERNAME
      [] OTHER -> <<100, 101, 102, 97, 117, 108, 116>>

\* the key for an account name and a canonical path
KeyFor(account, path) ==
    LET saltInput == account \o <<ColonChar>> \o path
    IN  Pbkdf2Sync(saltInput, Sha256(saltInput), PBKDF2_ITERATIONS, KEY_LENGTH)

\* C30: every call of deriveKey returns a key, and it is the key of the
\* account name USER, else USERNAME, else 'default'; for the same canonical
\* path two environments yield the same key exactly when they resolve to the
\* same account name by this rule
C30_AccountFallback ==
    cx.pc = "keys" =>
        /\ \A i \in 1..Len(cx.calls) :
              /\ Len(cx.calls[i].key) = KEY_LENGTH
              /\ cx.calls[i].key
                   = KeyFor(FallbackAccount(cx.calls[i].env), CanonicalPathOf(cx.calls[i]))
        /\ \A i, j \in 1..Len(cx.calls) :
              CanonicalPathOf(cx.calls[i]) = CanonicalPathOf(cx.calls[j])
              => (cx.calls[i].key = cx.calls[j].key
                    <=> FallbackAccount(cx.calls[i].env) = FallbackAccount(cx.calls[j].env))

\* C30 witness: the same key with the account name in USERNAME alone and
\* with the same name in USER beside another USERNAME, and another key once
\* neither variable is set
C30_Witness ==
    /\ cx.pc = "keys" /\ Len(cx.calls) = 2
    /\ cx.calls[1].env = [USER |-> <<>>, USERNAME |-> <<97, 108>>, cwd |-> StrCwd]
    /\ cx.calls[2].env = [USER |-> <<97, 108>>, USERNAME |-> <<98, 111>>, cwd |-> StrCwd]
    /\ cx.calls[1].projectPath = cx.calls[2].projectPath
    /\ cx.calls[1].key = cx.calls[2].key
    /\ env = [USER |-> <<>>, USERNAME |-> <<>>, cwd |-> StrCwd]
    /\ deriveKey(env, cx.calls[1].projectPath) # cx.calls[1].key

============================================================================
